---- MODULE Spec2Model ----
(***************************************************************************)
(* Outbox / sender / detector / approval gate of auto_track_1.             *)
(*                                                                         *)
(* The table notifications_outbox is the sequence `outbox`; a row's id is  *)
(* its index.  Every timestamp column is kept as an offset in seconds      *)
(* from the current instant, so SQL now() is the offset 0 (`now`) and the  *)
(* passing of time (Tick) shifts every stored timestamp into the past.     *)
(* Offsets that can no longer change the outcome of a comparison made by   *)
(* the code saturate, which keeps the state finite while time is unbounded.*)
(***************************************************************************)
EXTENDS Integers, Sequences, FiniteSets, TLC

VARIABLES
    outbox,     \* notifications_outbox: sequence of rows, id = index
    held,       \* held[w]: ids of the rows locked by w's open claim transaction
    pc,         \* pc[w]: position of sender w in run_forever
    loops,      \* loops[w]: run_forever's loop counter, modulo reclaim_every_loops
    items,      \* items[w]: the batch claim_batch returned to w
    idx,        \* idx[w]: index in items[w] of the next item to send
    sent_ids,   \* sent_ids[w], retry_rows[w], dead_rows[w]: run_forever's result lists
    retry_rows,
    dead_rows,
    det_i,      \* index in PigIds of the pig the detector handles next
    det_log,    \* what the detector printed for the last pig:
                \* <<"inserted" | "skipped" | "none", dedup_key>>
    pig_state,  \* the PigState the repo holds for the pig the Engine tracks
    clock,      \* the argument `now` of the last process_pig call, in seconds
    sample_dt,  \* dt of the pig's latest telemetry sample, in seconds
    returned,   \* the payload the last process_pig call returned, or the
                \* result of the last direct call of one of the functions
    args,       \* the arguments of the last direct call, or the response
                \* the last POST of a sender got
    offset      \* the approval worker's update offset (.tg_update_offset.txt)

vars == <<outbox, held, pc, loops, items, idx, sent_ids, retry_rows, dead_rows,
          det_i, det_log, pig_state, clock, sample_dt, returned, args, offset>>

engineVars == <<pig_state, clock, sample_dt, returned, args>>

outboxVars == <<outbox, held, pc, loops, items, idx, sent_ids, retry_rows, dead_rows,
                det_i, det_log>>

senderVars == <<held, pc, loops, items, idx, sent_ids, retry_rows, dead_rows>>

----------------------------------------------------------------------------
(* Bounds and configuration values of a run *)

\* run_forever(batch_size, max_attempts, stale_seconds, reclaim_every_loops):
\* configuration values of a run, chosen small here
batch_size == 2
max_attempts == 2
reclaim_every_loops == 1
\* stale_seconds: int = 300
stale_seconds == 300
\* seconds that pass in one Tick: longer than stale_seconds and than every
\* backoff the modelled runs schedule
TickSeconds == 400

Workers == {"sender_1", "sender_2"}
\* the senders that may stop for good; the others keep looping
Crashable == {"sender_2"}
\* repo.list_active_pigs(...)
PigIds == <<"PIG_001", "PIG_002">>
\* values of payload["Notification Type"] the engine can return ("" = none)
NotifTypes == {"", "POI Passage"}

NULL == <<>>
Some(x) == <<x>>

Max(a, b) == IF a >= b THEN a ELSE b
Min(a, b) == IF a <= b THEN a ELSE b

\* SQL now(): the current instant, the origin of every stored offset
now == 0

Ids(ob) == 1..Len(ob)

----------------------------------------------------------------------------
(* core/repo.py: make_dedup_key and PostgresRepo.enqueue_notification *)

make_dedup_key(payload) == <<payload.pig_id, payload.notif_type>>

KeyExists(ob, dedup_key) == \E id \in Ids(ob) : ob[id].dedup_key = dedup_key

NewRow(id, dedup_key, pig_id, notif_type, payload) ==
    [ id |-> id, dedup_key |-> dedup_key, pig_id |-> pig_id,
      notif_type |-> notif_type, payload |-> payload,
      status |-> "NEW", approval_status |-> "PENDING",
      approval_token |-> <<"token", id>>,
      attempt_count |-> 0, next_attempt_at |-> now,
      locked_by |-> NULL, locked_at |-> NULL,
      last_error |-> NULL, sent_at |-> NULL ]

\* inserted: bool
enqueue_inserted(ob, dedup_key) == ~KeyExists(ob, dedup_key)

\* an enqueue without the unique constraint on dedup_key
enqueue_without_unique(ob, dedup_key, pig_id, notif_type, payload) ==
    Append(ob, NewRow(Len(ob) + 1, dedup_key, pig_id, notif_type, payload))

\* the table after enqueue
enqueue_notification(ob, dedup_key, pig_id, notif_type, payload) ==
    IF KeyExists(ob, dedup_key)
    THEN ob
    ELSE Append(ob, NewRow(Len(ob) + 1, dedup_key, pig_id, notif_type, payload))

----------------------------------------------------------------------------
(* sender_worker.py *)

\* schedule = [10, 30, 60, 120, 300, 600]
schedule == <<10, 30, 60, 120, 300, 600>>

\* base of compute_backoff_seconds (schedule is 0-based in the source)
BackoffBase(attempt_count) ==
    schedule[Min(Max(attempt_count, 0), Len(schedule) - 1) + 1]

\* random.randint(0, max(1, base // 10)): both ends included
JitterRange(base) == 0..Max(1, base \div 10)

\* the values compute_backoff_seconds(attempt_count) can return
compute_backoff_seconds(attempt_count) ==
    { BackoffBase(attempt_count) + jitter :
        jitter \in JitterRange(BackoffBase(attempt_count)) }

\* the two extreme values of compute_backoff_seconds, which the runs draw
BackoffDraws(attempt_count) ==
    { v \in compute_backoff_seconds(attempt_count) :
        \/ \A u \in compute_backoff_seconds(attempt_count) : v <= u
        \/ \A u \in compute_backoff_seconds(attempt_count) : v >= u }

\* a sweep that takes only SENDING rows that carry no lock time
IsStale_unlocked_only(r) ==
    /\ r.status = "SENDING"
    /\ r.locked_at = NULL

\* WHERE status='SENDING' AND locked_at IS NOT NULL AND locked_at < now() - stale
IsStale(r) ==
    /\ r.status = "SENDING"
    /\ r.locked_at # NULL
    /\ r.locked_at[1] < now - stale_seconds

reclaim_stale_sending(ob) ==
    [ id \in Ids(ob) |->
        IF IsStale(ob[id])
        THEN [ ob[id] EXCEPT !.status = "RETRY", !.next_attempt_at = now,
                             !.locked_by = NULL, !.locked_at = NULL ]
        ELSE ob[id] ]

\* a claim that does not look at approval_status
Eligible_without_approval(r) ==
    /\ r.status \in {"NEW", "RETRY"}
    /\ r.next_attempt_at <= now

\* WHERE status IN ('NEW','RETRY') AND approval_status='APPROVED'
\*   AND next_attempt_at <= now()
Eligible(r) ==
    /\ r.status \in {"NEW", "RETRY"}
    /\ r.approval_status = "APPROVED"
    /\ r.next_attempt_at <= now

\* a plain SELECT, which takes no row lock and sees locked rows
SkipLocked_plain_select(id, locked) == TRUE

\* FOR UPDATE SKIP LOCKED: rows locked by another transaction are passed over
SkipLocked(id, locked) == id \notin locked

\* ORDER BY id ... LIMIT n : the ids of the n first candidates
RECURSIVE FirstN(_, _, _)
FirstN(ob, cand, n) ==
    IF n = 0 \/ cand = {}
    THEN <<>>
    ELSE LET m == CHOOSE x \in cand : \A y \in cand : x <= y
         IN  <<m>> \o FirstN(ob, cand \ {m}, n - 1)

\* a SELECT that takes the n candidates with the greatest ids
ClaimSelect_greatest_ids(ob, locked, n) ==
    LET cand == { id \in Ids(ob) : Eligible(ob[id]) /\ SkipLocked(id, locked) }
    IN  FirstN(ob, { id \in cand : Cardinality({ j \in cand : j > id }) < n }, n)

\* the SELECT of claim_batch: ids in id order
ClaimSelect(ob, locked, n) ==
    FirstN(ob, { id \in Ids(ob) : Eligible(ob[id]) /\ SkipLocked(id, locked) }, n)

\* OutboxItem(id, dedup_key, pig_id, notif_type, payload, attempt_count)
OutboxItem(r) ==
    [ id |-> r.id, dedup_key |-> r.dedup_key, pig_id |-> r.pig_id,
      notif_type |-> r.notif_type, payload |-> r.payload,
      attempt_count |-> r.attempt_count ]

\* the UPDATE of claim_batch
ClaimUpdate(ob, ids, worker_name) ==
    [ id \in Ids(ob) |->
        IF id \in ids
        THEN [ ob[id] EXCEPT !.status = "SENDING",
                             !.locked_by = Some(worker_name),
                             !.locked_at = Some(now) ]
        ELSE ob[id] ]

SeqRange(s) == { s[k] : k \in 1..Len(s) }

\* WHERE id = ANY(ids)
MarkSentWhere(r, ids) == r.id \in ids

\* a sent mark that also empties the payload of the rows it marks
_mark_sent_many_drops_payload(ob, ids) ==
    [ id \in Ids(ob) |->
        IF MarkSentWhere(ob[id], SeqRange(ids))
        THEN [ ob[id] EXCEPT !.status = "SENT", !.sent_at = Some(now),
                             !.payload = NULL,
                             !.locked_by = NULL, !.locked_at = NULL ]
        ELSE ob[id] ]

_mark_sent_many(ob, ids) ==
    [ id \in Ids(ob) |->
        IF MarkSentWhere(ob[id], SeqRange(ids))
        THEN [ ob[id] EXCEPT !.status = "SENT", !.sent_at = Some(now),
                             !.locked_by = NULL, !.locked_at = NULL ]
        ELSE ob[id] ]

\* a retry UPDATE that leaves locked_by and locked_at as they are
_mark_retry_many_keeps_lock(ob, rows) ==
    [ id \in Ids(ob) |->
        IF \E k \in 1..Len(rows) : rows[k].id = id
        THEN LET it == rows[CHOOSE k \in 1..Len(rows) : rows[k].id = id]
             IN  [ ob[id] EXCEPT !.status = "RETRY",
                     !.attempt_count = it.attempt,
                     !.next_attempt_at = now + it.backoff,
                     !.last_error = Some(it.err) ]
        ELSE ob[id] ]

\* executemany: one UPDATE ... WHERE id=%s per item, in list order
RECURSIVE _mark_retry_many(_, _)
_mark_retry_many(ob, rows) ==
    IF rows = <<>>
    THEN ob
    ELSE LET it == Head(rows)
             ob1 == [ id \in Ids(ob) |->
                        IF id = it.id
                        THEN [ ob[id] EXCEPT !.status = "RETRY",
                                 !.attempt_count = it.attempt,
                                 !.next_attempt_at = now + it.backoff,
                                 !.last_error = Some(it.err),
                                 !.locked_by = NULL, !.locked_at = NULL ]
                        ELSE ob[id] ]
         IN  _mark_retry_many(ob1, Tail(rows))

RECURSIVE _mark_dead_many(_, _)
_mark_dead_many(ob, rows) ==
    IF rows = <<>>
    THEN ob
    ELSE LET it == Head(rows)
             ob1 == [ id \in Ids(ob) |->
                        IF id = it.id
                        THEN [ ob[id] EXCEPT !.status = "DEAD",
                                 !.attempt_count = it.attempt,
                                 !.last_error = Some(it.err),
                                 !.locked_by = NULL, !.locked_at = NULL ]
                        ELSE ob[id] ]
         IN  _mark_dead_many(ob1, Tail(rows))

\* rows locked by the open transactions of the other workers
LockedByOthers(w) == UNION { held[v] : v \in Workers \ {w} }

\* run_forever, transaction 1 up to the SELECT of claim_batch:
\* loops += 1; every reclaim_every_loops-th loop reclaim; then select.
\* With no row selected the transaction commits and the worker sleeps.
Begin(w) ==
    /\ pc[w] = "begin"
    /\ LET n   == (loops[w] + 1) % Max(1, reclaim_every_loops)
           ob1 == IF n = 0 THEN reclaim_stale_sending(outbox) ELSE outbox
           ids == ClaimSelect(ob1, LockedByOthers(w), batch_size)
       IN  /\ loops' = [loops EXCEPT ![w] = n]
           /\ outbox' = ob1
           /\ IF ids = <<>>
              THEN UNCHANGED <<held, pc, items>>
              ELSE /\ held' = [held EXCEPT ![w] = SeqRange(ids)]
                   /\ items' = [items EXCEPT
                                  ![w] = [k \in 1..Len(ids) |-> OutboxItem(ob1[ids[k]])]]
                   /\ pc' = [pc EXCEPT ![w] = "update"]
    /\ UNCHANGED <<idx, sent_ids, retry_rows, dead_rows, det_i, det_log, engineVars, offset>>

\* the UPDATE of claim_batch and the commit of transaction 1
Update(w) ==
    /\ pc[w] = "update"
    /\ outbox' = ClaimUpdate(outbox, held[w], w)
    /\ held' = [held EXCEPT ![w] = {}]
    /\ idx' = [idx EXCEPT ![w] = 1]
    /\ pc' = [pc EXCEPT ![w] = "send"]
    /\ UNCHANGED <<loops, items, sent_ids, retry_rows, dead_rows,
                   det_i, det_log, engineVars, offset>>

\* a dead-letter test that gives up one attempt early
Exhausted_one_early(next_attempt_count) == next_attempt_count >= max_attempts - 1

\* if next_attempt_count >= max_attempts: the item goes to dead_rows
Exhausted(next_attempt_count) == next_attempt_count >= max_attempts

\* send_one: the headers of the POST
Headers(item) == [ContentType |-> "application/json", IdempotencyKey |-> item.dedup_key]

\* what session.post does: a response with a status code, or an exception
\* (transport error, timeout), which has none
Responses == { [status |-> Some(200)], [status |-> Some(204)],
               [status |-> Some(500)], [status |-> NULL] }

\* a send_one that takes only the status 200 for a success
send_one_only_200(resp) ==
    IF resp.status = NULL
    THEN [ok |-> FALSE, info |-> "exc"]
    ELSE IF resp.status[1] = 200
    THEN [ok |-> TRUE, info |-> "ok"]
    ELSE [ok |-> FALSE, info |-> "http"]

\* send_one: (ok, info); info begins with "ok", with "http" or with "exc"
send_one(resp) ==
    IF resp.status = NULL
    THEN [ok |-> FALSE, info |-> "exc"]
    ELSE IF 200 <= resp.status[1] /\ resp.status[1] < 300
    THEN [ok |-> TRUE, info |-> "ok"]
    ELSE [ok |-> FALSE, info |-> "http"]

\* send_one: (ok, err) for the outcomes of the POST the runs of the senders
\* draw from: the statuses 200 and 500
PostOutcomes == { send_one([status |-> Some(200)]), send_one([status |-> Some(500)]) }

\* one iteration of `for item in items` of run_forever, res = send_one(item)
SendItem(w, res) ==
    /\ pc[w] = "send"
    /\ LET item == items[w][idx[w]]
           next_attempt_count == item.attempt_count + 1
       IN       IF res.ok
                THEN /\ sent_ids' = [sent_ids EXCEPT ![w] = Append(@, item.id)]
                     /\ UNCHANGED <<retry_rows, dead_rows>>
                ELSE IF Exhausted(next_attempt_count)
                THEN /\ dead_rows' = [dead_rows EXCEPT ![w] =
                            Append(@, [id |-> item.id, attempt |-> next_attempt_count,
                                       err |-> res.info])]
                     /\ UNCHANGED <<sent_ids, retry_rows>>
                ELSE \E backoff \in BackoffDraws(next_attempt_count) :
                     /\ retry_rows' = [retry_rows EXCEPT ![w] =
                            Append(@, [id |-> item.id, attempt |-> next_attempt_count,
                                       backoff |-> backoff, err |-> res.info])]
                     /\ UNCHANGED <<sent_ids, dead_rows>>
    /\ idx' = [idx EXCEPT ![w] = @ + 1]
    /\ pc' = [pc EXCEPT ![w] = IF idx[w] = Len(items[w]) THEN "ack" ELSE "send"]
    /\ UNCHANGED <<outbox, held, loops, items, det_i, det_log>>

Send(w) == \E res \in PostOutcomes : SendItem(w, res) /\ UNCHANGED <<engineVars, offset>>

\* the same for every response, with the response the POST got on record
SendRecorded(w) ==
    \E resp \in Responses :
        /\ SendItem(w, send_one(resp))
        /\ args' = [fn |-> "send_one", resp |-> resp]
        /\ UNCHANGED <<pig_state, clock, sample_dt, returned, offset>>

\* the ids transaction 2 writes
AckIds(w) ==
    SeqRange(sent_ids[w]) \cup { retry_rows[w][k].id : k \in 1..Len(retry_rows[w]) }
                          \cup { dead_rows[w][k].id : k \in 1..Len(dead_rows[w]) }

\* run_forever, transaction 2: persist the results; it waits for row locks
Ack(w) ==
    /\ pc[w] = "ack"
    /\ AckIds(w) \cap LockedByOthers(w) = {}
    /\ outbox' = _mark_dead_many(
                    _mark_retry_many(_mark_sent_many(outbox, sent_ids[w]),
                                     retry_rows[w]),
                    dead_rows[w])
    /\ pc' = [pc EXCEPT ![w] = "begin"]
    /\ items' = [items EXCEPT ![w] = <<>>]
    /\ idx' = [idx EXCEPT ![w] = 1]
    /\ sent_ids' = [sent_ids EXCEPT ![w] = <<>>]
    /\ retry_rows' = [retry_rows EXCEPT ![w] = <<>>]
    /\ dead_rows' = [dead_rows EXCEPT ![w] = <<>>]
    /\ UNCHANGED <<held, loops, det_i, det_log, engineVars, offset>>

\* a sender process stops for good and its memory is gone (outside a
\* transaction; a transaction cut short is rolled back, which leaves the
\* table as a stop before it does)
Crash(w) ==
    /\ w \in Crashable
    /\ pc[w] \in {"begin", "send", "ack"}
    /\ pc' = [pc EXCEPT ![w] = "crashed"]
    /\ loops' = [loops EXCEPT ![w] = 0]
    /\ items' = [items EXCEPT ![w] = <<>>]
    /\ idx' = [idx EXCEPT ![w] = 1]
    /\ sent_ids' = [sent_ids EXCEPT ![w] = <<>>]
    /\ retry_rows' = [retry_rows EXCEPT ![w] = <<>>]
    /\ dead_rows' = [dead_rows EXCEPT ![w] = <<>>]
    /\ UNCHANGED <<outbox, held, det_i, det_log, engineVars, offset>>

----------------------------------------------------------------------------
(* detector_worker.py *)

\* a detector that takes inserted=false for a failure and stops
NextPig_stops_on_conflict(i, inserted) ==
    IF inserted THEN (IF i = Len(PigIds) THEN 1 ELSE i + 1) ELSE 0

\* the pig after position i of `for pig_id in pig_ids`: enqueue's result is
\* only printed; after the last pig the detector sleeps and lists the pigs again
NextPig(i, inserted) == IF i = Len(PigIds) THEN 1 ELSE i + 1

\* one iteration of `for pig_id in pig_ids` of run_detector; notif_type is
\* the "Notification Type" of the payload process_pig returned
DetectorStep(notif_type) ==
    /\ det_i \in 1..Len(PigIds)
    /\ LET pig_id    == PigIds[det_i]
           payload   == [pig_id |-> pig_id, notif_type |-> notif_type]
           dedup_key == make_dedup_key(payload)
           inserted  == enqueue_inserted(outbox, dedup_key)
       IN  IF notif_type = ""
           THEN /\ det_i' = NextPig(det_i, TRUE)
                /\ det_log' = <<"none", NULL>>
                /\ UNCHANGED <<outbox, senderVars, engineVars, offset>>
           ELSE /\ outbox' = enqueue_notification(outbox, dedup_key, pig_id,
                                                  notif_type, payload)
                /\ det_log' = <<IF inserted THEN "inserted" ELSE "skipped", dedup_key>>
                /\ det_i' = NextPig(det_i, inserted)
                /\ UNCHANGED <<senderVars, engineVars, offset>>

\* process_pig or enqueue_notification raises for the pig at hand: nothing
\* in run_detector catches it, so it leaves `while True` and the process ends
DetectorRaise ==
    /\ det_i \in 1..Len(PigIds)
    /\ det_i' = 0
    /\ det_log' = <<"raised", NULL>>
    /\ UNCHANGED <<outbox, senderVars, engineVars, offset>>

----------------------------------------------------------------------------
(* approval gate: PostgresRepo.decide_approval *)

decide_updated(ob, outbox_id, token) ==
    /\ outbox_id \in Ids(ob)
    /\ ob[outbox_id].approval_token = token
    /\ ob[outbox_id].approval_status = "PENDING"

\* a decision that is written whatever the row's approval_status is
decide_approval_any_status(ob, outbox_id, token, decision) ==
    IF outbox_id \in Ids(ob) /\ ob[outbox_id].approval_token = token
    THEN [ob EXCEPT ![outbox_id].approval_status = decision]
    ELSE ob

decide_approval(ob, outbox_id, token, decision) ==
    IF decide_updated(ob, outbox_id, token)
    THEN [ob EXCEPT ![outbox_id].approval_status = decision]
    ELSE ob

Decide(outbox_id, token, decision) ==
    /\ outbox_id \notin UNION { held[v] : v \in Workers }
    /\ outbox' = decide_approval(outbox, outbox_id, token, decision)
    /\ UNCHANGED <<senderVars, det_i, det_log, engineVars, offset>>

(* telegram_approval_worker.py: main, one update of the getUpdates result *)

\* the largest update_id the model delivers
MaxUpdateId == 3

\* int(text): the integer a text denotes, surrounding blanks allowed;
\* NULL where int() raises ValueError
int_parse(text) ==
    IF text = "1" THEN Some(1)
    ELSE IF text = " 2" THEN Some(2)
    ELSE IF text = "9" THEN Some(9)
    ELSE NULL

\* the texts an id field can hold
IdTexts == {"1", " 2", "9", "x", ""}

\* the action codes a callback can carry
ActionCodes == {"A", "R", "X", "a"}

\* the tokens a callback can carry
CallbackTokens == { <<"token", 1>>, <<"token", 2>>, <<"token", 0>> }

\* callback data as data.split(":") returns it: the list of its fields
CallbackData ==
    { <<a, i, t>> : a \in ActionCodes, i \in IdTexts, t \in CallbackTokens }
        \cup { <<"">>, <<"A", "1">>, <<"A", "1", <<"token", 1>>, "">> }

\* an update of getUpdates: with a callback_query, or without one
Updates ==
    [ update_id : 1..MaxUpdateId,
      callback_query : {NULL} \cup { [data |-> d] : d \in CallbackData } ]

\* _answer_callback returns (whatever Telegram answered) or the POST raises
AnswerOutcomes == {"returned", "raised"}

\* lines 210-215: the unpacking of the fields and int(outbox_id_str);
\* NULL where either raises
parse_callback(data) ==
    IF Len(data) # 3 THEN NULL
    ELSE IF int_parse(data[2]) = NULL THEN NULL
    ELSE Some([action |-> data[1], outbox_id |-> int_parse(data[2])[1], token |-> data[3]])

\* a decision that rejects only on the reject button's code
decision_of_reject_only_R(action) == IF action = "R" THEN "REJECTED" ELSE "APPROVED"

\* line 217
decision_of(action) == IF action = "A" THEN "APPROVED" ELSE "REJECTED"

\* the body of `for upd in updates` for one update the poll with the
\* current offset returned; returned' is the decision handed to
\* decide_approval with its result, NULL if none was
HandleUpdate(upd, answer) ==
    /\ upd.update_id >= offset
    /\ offset' = upd.update_id + 1
    /\ args' = [fn |-> "update", upd |-> upd]
    /\ LET cq     == upd.callback_query
           parsed == IF cq = NULL THEN NULL ELSE parse_callback(cq.data)
       IN  IF cq = NULL \/ answer = "raised" \/ parsed = NULL
           THEN /\ returned' = NULL
                /\ UNCHANGED outbox
           ELSE LET p        == parsed[1]
                    decision == decision_of(p.action)
                IN  /\ p.outbox_id \notin UNION { held[v] : v \in Workers }
                    /\ returned' = [outbox_id |-> p.outbox_id, token |-> p.token,
                                    decision |-> decision,
                                    ok |-> decide_updated(outbox, p.outbox_id, p.token)]
                    /\ outbox' = decide_approval(outbox, p.outbox_id, p.token, decision)
    /\ UNCHANGED <<senderVars, det_i, det_log, pig_state, clock, sample_dt>>

----------------------------------------------------------------------------
(* core/engine.py, core/models.py: the Engine's view of one pig *)

\* EngineConfig
meters_per_channel == 25
poi_tol_meters == 50
stop_window_seconds == 120
stop_span_tol_m == 50

\* kp values (float kilometres in the code) are held in units of 1/KpScale km
KpScale == 100

\* float(kp) * 1000.0
KmToM(kp) == (kp * 1000) \div KpScale

NOTIF_COMPLETION == "Completed"
NOTIF_POI_PASSAGE == "POI Passage"
NOTIF_PRE_15 == "15 Min Notification"
NOTIF_PRE_30 == "30 Min Notification"
NOTIF_30MIN_UPDATE == "30 Min Update"
NOTIF_GAP_START == "Gap Start"
NOTIF_GAP_END == "Gap End"

POI(tag, valve_type, global_channel, kp, legacy_route) ==
    [ tag |-> tag, valve_type |-> valve_type, global_channel |-> global_channel,
      kp |-> kp, legacy_route |-> legacy_route ]

GapPoint(legacy_route, kind, kp) ==
    [ legacy_route |-> legacy_route, kind |-> kind, kp |-> kp ]

PosSample(gc, kp) == [ gc |-> gc, kp |-> kp ]

\* repo.get_pois(): POI.csv in file order
Pois ==
    << POI("V1", "MAIN", NULL, Some(200), "L1"),
       POI("V2", "MAIN", NULL, Some(400), "L1"),
       POI("X1", "MAIN", Some(40), NULL, "L2") >>

\* repo.get_gaps(): gap.csv
Gaps ==
    << GapPoint("L1", "start", 110),
       GapPoint("L1", "end", 113),
       GapPoint("L2", "start", 20) >>

\* repo.get_gc_to_kp(): GCtoKP.csv
GcToKp == [ gc \in {8} |-> 20 ]

_kp_from_gc(gc) == IF gc \in DOMAIN GcToKp THEN Some(GcToKp[gc]) ELSE NULL

\* a position of a sample that looks at the global channel before the kp
_pos_m_channel_first(sample) ==
    IF sample.gc # NULL
    THEN IF _kp_from_gc(sample.gc[1]) # NULL
         THEN Some(KmToM(_kp_from_gc(sample.gc[1])[1]))
         ELSE Some(sample.gc[1] * meters_per_channel)
    ELSE IF sample.kp # NULL
    THEN Some(KmToM(sample.kp[1]))
    ELSE NULL

\* position of a sample in meters, None when it has neither kp nor gc
_pos_m(sample) ==
    IF sample.kp # NULL
    THEN Some(KmToM(sample.kp[1]))
    ELSE IF sample.gc # NULL
    THEN IF _kp_from_gc(sample.gc[1]) # NULL
         THEN Some(KmToM(_kp_from_gc(sample.gc[1])[1]))
         ELSE Some(sample.gc[1] * meters_per_channel)
    ELSE NULL

_poi_pos_m(poi) ==
    IF poi.kp # NULL
    THEN Some(KmToM(poi.kp[1]))
    ELSE IF poi.global_channel # NULL
    THEN IF _kp_from_gc(poi.global_channel[1]) # NULL
         THEN Some(KmToM(_kp_from_gc(poi.global_channel[1])[1]))
         ELSE Some(poi.global_channel[1] * meters_per_channel)
    ELSE NULL

\* float(kp) * 1000.0 of a gap point
_gap_pos_m(kp) == KmToM(kp)

Abs(x) == IF x < 0 THEN 0 - x ELSE x

\* the value of a fired_pre*_for_tag field of a PigState that was just created
\* (models.py: an empty set)
NoTagYet == <<"set", "empty">>

\* the fields core/models.py declares for PigState
DeclaredPigState ==
    [ legacy_route |-> NULL, last_pos_m |-> NULL, last_dt |-> NULL,
      first_notif_at |-> NULL, last_notif_at |-> NULL,
      fired_pre15_for_tag |-> NoTagYet, fired_pre30_for_tag |-> NoTagYet ]

\* the fields the Engine reads and writes that core/models.py does not declare
EnginePigState ==
    [ locked_legacy_route |-> NULL, last_event |-> NULL, last_event_dt |-> NULL,
      moving_started_at |-> NULL, last_gap_fired |-> NULL ]

\* PigState()
PigState == DeclaredPigState @@ EnginePigState

\* the return statement is inside the loop over pois: the function returns
\* after the first POI (and returns None for no POI)
_build_routes(pois) ==
    IF pois = <<>>
    THEN NULL
    ELSE [ r \in {pois[1].legacy_route} |-> <<pois[1]>> ]

\* a route picker that takes the route again on every call and never binds it
_pick_legacy_route_unbound(routes, state) ==
    IF routes = NULL
    THEN [ route |-> "unknown", state |-> state ]
    ELSE [ route |-> CHOOSE r \in DOMAIN routes :
                       \A q \in DOMAIN routes : Len(routes[r]) >= Len(routes[q]),
           state |-> state ]

\* returns the route name and the state, whose locked_legacy_route it may set
_pick_legacy_route(routes, state) ==
    IF /\ state.locked_legacy_route # NULL
       /\ state.locked_legacy_route[1] # ""
       /\ state.locked_legacy_route[1] \in DOMAIN routes
    THEN [ route |-> state.locked_legacy_route[1], state |-> state ]
    ELSE IF routes = NULL
    THEN [ route |-> "unknown", state |-> state ]
    ELSE LET chosen == CHOOSE r \in DOMAIN routes :
                         \A q \in DOMAIN routes : Len(routes[r]) >= Len(routes[q])
         IN  [ route |-> chosen,
               state |-> [state EXCEPT !.locked_legacy_route = Some(chosen)] ]

\* the POIs of a route that have a position, in route order
Positioned(route_pois) == SelectSeq(route_pois, LAMBDA p : _poi_pos_m(p) # NULL)

\* <<prev_poi, next_poi, end_poi>>
_find_prev_next_end(route_pois, cur_pos_m) ==
    LET its    == Positioned(route_pois)
        ahead  == { k \in 1..Len(its) : _poi_pos_m(its[k])[1] > cur_pos_m }
        first  == IF ahead = {} THEN Len(its) + 1
                  ELSE CHOOSE k \in ahead : \A j \in ahead : k <= j
    IN  IF its = <<>>
        THEN <<NULL, NULL, NULL>>
        ELSE << IF first > 1 THEN Some(its[first - 1]) ELSE NULL,
                IF ahead # {} THEN Some(its[first]) ELSE NULL,
                Some(its[Len(its)]) >>

\* max - min of the positions of the samples that have one, None for none
_positions_span_m(samples) ==
    LET ps == { _pos_m(x)[1] : x \in { y \in samples : _pos_m(y) # NULL } }
    IN  IF ps = {}
        THEN NULL
        ELSE Some((CHOOSE a \in ps : \A b \in ps : a >= b)
                  - (CHOOSE a \in ps : \A b \in ps : a <= b))

\* recent: the samples repo.get_recent_positions returns for the stop window
_infer_pig_event(cur_pos_m, end_poi, recent) ==
    IF /\ end_poi # NULL
       /\ _poi_pos_m(end_poi[1]) # NULL
       /\ Abs(cur_pos_m - _poi_pos_m(end_poi[1])[1]) <= poi_tol_meters
    THEN "Completed"
    ELSE IF /\ _positions_span_m(recent) # NULL
            /\ _positions_span_m(recent)[1] <= stop_span_tol_m
    THEN "Stopped"
    ELSE "Moving"

_update_event_state(state, new_event, event_dt) ==
    [ state EXCEPT
        !.moving_started_at =
            IF state.last_event # Some(new_event)
               /\ state.last_event = Some("Stopped") /\ new_event = "Moving"
            THEN Some(event_dt) ELSE @,
        !.last_event = Some(new_event),
        !.last_event_dt = Some(event_dt) ]

\* speed as the pair <<meters, seconds>> of the quotient the code computes;
\* ref is None or the reference sample with its age in seconds
_calc_speed_mps(cur_pos_m, ref) ==
    IF ref = NULL \/ _pos_m(ref[1].sample) = NULL \/ ref[1].age <= 0
    THEN NULL
    ELSE Some(<<cur_pos_m - _pos_m(ref[1].sample)[1], ref[1].age>>)

\* round(speed_mps, 2) of _build_payload in hundredths of a metre per
\* second: the nearest hundredth, the even one of two equally near
round2(speed_mps) ==
    LET n == 100 * speed_mps[1][1]
        d == speed_mps[1][2]
        q == n \div d
        r == n % d
    IN  IF 2 * r < d THEN q
        ELSE IF 2 * r > d THEN q + 1
        ELSE IF q % 2 = 0 THEN q ELSE q + 1

\* int(dist_m / speed_mps)
_eta_second(cur_pos_m, target_pos_m, speed_mps) ==
    IF speed_mps = NULL \/ speed_mps[1][1] <= 0
    THEN NULL
    ELSE IF target_pos_m - cur_pos_m < 0
    THEN NULL
    ELSE Some(((target_pos_m - cur_pos_m) * speed_mps[1][2]) \div speed_mps[1][1])

\* the closest POI within poi_tol_meters, the first of them in a tie
_find_poi_passage(route_pois, cur_pos_m) ==
    LET d(k)  == Abs(cur_pos_m - _poi_pos_m(route_pois[k])[1])
        near  == { k \in 1..Len(route_pois) :
                     _poi_pos_m(route_pois[k]) # NULL /\ d(k) <= poi_tol_meters }
    IN  IF near = {}
        THEN NULL
        ELSE Some(route_pois[CHOOSE k \in near :
                     \A j \in near : d(k) < d(j) \/ (d(k) = d(j) /\ k <= j)])

\* a periodic update that stamps first_notif_at whenever it fires
_infer_30min_update_restamps_first(state, cur_dt) ==
    IF \/ state.first_notif_at = NULL
       \/ state.last_notif_at = NULL
       \/ cur_dt - state.last_notif_at[1] >= 30 * 60
    THEN [ fire |-> TRUE,
           state |-> [state EXCEPT !.first_notif_at = Some(cur_dt),
                                   !.last_notif_at = Some(cur_dt)] ]
    ELSE [ fire |-> FALSE, state |-> state ]

\* returns whether the periodic update is due, and the state
_infer_30min_update(state, cur_dt) ==
    IF state.first_notif_at = NULL
    THEN [ fire |-> TRUE,
           state |-> [state EXCEPT !.first_notif_at = Some(cur_dt),
                                   !.last_notif_at = Some(cur_dt)] ]
    ELSE IF state.last_notif_at = NULL
    THEN [ fire |-> TRUE, state |-> [state EXCEPT !.last_notif_at = Some(cur_dt)] ]
    ELSE IF cur_dt - state.last_notif_at[1] >= 30 * 60
    THEN [ fire |-> TRUE, state |-> [state EXCEPT !.last_notif_at = Some(cur_dt)] ]
    ELSE [ fire |-> FALSE, state |-> state ]

\* a pre-POI test that does not look at the fired_pre*_for_tag fields
_infer_pre_poi_notification_no_dedup(state, next_poi, eta_next_sec) ==
    IF next_poi = NULL \/ eta_next_sec = NULL
    THEN [ notif |-> "", state |-> state ]
    ELSE IF 30 * 60 - 60 <= eta_next_sec[1] /\ eta_next_sec[1] <= 30 * 60 + 60
    THEN [ notif |-> NOTIF_PRE_30,
           state |-> [state EXCEPT !.fired_pre30_for_tag = Some(next_poi[1].tag)] ]
    ELSE IF 15 * 60 - 60 <= eta_next_sec[1] /\ eta_next_sec[1] <= 15 * 60 + 60
    THEN [ notif |-> NOTIF_PRE_15,
           state |-> [state EXCEPT !.fired_pre15_for_tag = Some(next_poi[1].tag)] ]
    ELSE [ notif |-> "", state |-> state ]

\* returns the pre-POI notification type ("" for none), and the state
_infer_pre_poi_notification(state, next_poi, eta_next_sec) ==
    IF next_poi = NULL \/ eta_next_sec = NULL
    THEN [ notif |-> "", state |-> state ]
    ELSE LET tag == next_poi[1].tag
             eta == eta_next_sec[1]
             tol == 60
         IN  IF /\ 30 * 60 - tol <= eta /\ eta <= 30 * 60 + tol
                /\ state.fired_pre30_for_tag # Some(tag)
             THEN [ notif |-> NOTIF_PRE_30,
                    state |-> [state EXCEPT !.fired_pre30_for_tag = Some(tag)] ]
             ELSE IF /\ 15 * 60 - tol <= eta /\ eta <= 15 * 60 + tol
                     /\ state.fired_pre15_for_tag # Some(tag)
             THEN [ notif |-> NOTIF_PRE_15,
                    state |-> [state EXCEPT !.fired_pre15_for_tag = Some(tag)] ]
             ELSE [ notif |-> "", state |-> state ]

_reset_on_completion(state) ==
    [ state EXCEPT !.locked_legacy_route = NULL,
                   !.fired_pre15_for_tag = NULL,
                   !.fired_pre30_for_tag = NULL,
                   !.moving_started_at = NULL,
                   !.last_gap_fired = NULL ]

\* f'{route_name}:{g.kind}:{g.kp}'
GapKey(route_name, g) == <<route_name, g.kind, g.kp>>

\* a gap notification that looks at the gap points of every route
_infer_gap_notification_any_route(state, route_name, cur_pos_m) ==
    LET d(k)  == Abs(cur_pos_m - _gap_pos_m(Gaps[k].kp))
        near  == { k \in 1..Len(Gaps) : d(k) <= poi_tol_meters }
        best  == CHOOSE k \in near :
                    \A j \in near :
                       \/ d(k) < d(j)
                       \/ d(k) = d(j) /\ Gaps[k].kp < Gaps[j].kp
                       \/ d(k) = d(j) /\ Gaps[k].kp = Gaps[j].kp /\ k <= j
    IN  IF near = {}
        THEN [ notif |-> "", state |-> state ]
        ELSE IF state.last_gap_fired = Some(GapKey(route_name, Gaps[best]))
        THEN [ notif |-> "", state |-> state ]
        ELSE [ notif |-> IF Gaps[best].kind = "start" THEN NOTIF_GAP_START
                         ELSE IF Gaps[best].kind = "end" THEN NOTIF_GAP_END
                         ELSE "",
               state |-> [state EXCEPT
                            !.last_gap_fired = Some(GapKey(route_name, Gaps[best]))] ]

\* returns the gap notification type ("" for none), and the state
_infer_gap_notification(state, route_name, cur_pos_m) ==
    LET d(k)  == Abs(cur_pos_m - _gap_pos_m(Gaps[k].kp))
        near  == { k \in 1..Len(Gaps) :
                     Gaps[k].legacy_route = route_name /\ d(k) <= poi_tol_meters }
        best  == CHOOSE k \in near :
                    \A j \in near :
                       \/ d(k) < d(j)
                       \/ d(k) = d(j) /\ Gaps[k].kp < Gaps[j].kp
                       \/ d(k) = d(j) /\ Gaps[k].kp = Gaps[j].kp /\ k <= j
    IN  IF near = {}
        THEN [ notif |-> "", state |-> state ]
        ELSE IF state.last_gap_fired = Some(GapKey(route_name, Gaps[best]))
        THEN [ notif |-> "", state |-> state ]
        ELSE [ notif |-> IF Gaps[best].kind = "start" THEN NOTIF_GAP_START
                         ELSE IF Gaps[best].kind = "end" THEN NOTIF_GAP_END
                         ELSE "",
               state |-> [state EXCEPT
                            !.last_gap_fired = Some(GapKey(route_name, Gaps[best]))] ]

\* the tag of an optional POI, "" for None
TagOf(poi) == IF poi = NULL THEN "" ELSE poi[1].tag

\* the payload of a call that returned {} (no telemetry)
EmptyPayload == [ keys |-> "none" ]

\* the payload of a call for a sample without a position
MinimalPayload(route_name) ==
    [ keys |-> "minimal", Legacy_Route |-> route_name, Position_m |-> NULL,
      Prev_POI |-> "", Next_POI |-> "", End_POI |-> "", Notification_Type |-> "" ]

\* Speed_mps is the quotient before round(speed_mps, 2)
_build_payload(route_name, cur_pos_m, prev_poi, next_poi, end_poi, pig_event, speed_mps, eta_next, eta_end, notification_type, notif_poi) ==
    [ keys |-> "full", Legacy_Route |-> route_name, Position_m |-> Some(cur_pos_m),
      Prev_POI |-> TagOf(prev_poi), Next_POI |-> TagOf(next_poi),
      End_POI |-> TagOf(end_poi), Pig_Event |-> pig_event, Speed_mps |-> speed_mps,
      ETA_to_Next_POI |-> eta_next, ETA_to_End_POI |-> eta_end,
      Notification_Type |-> notification_type,
      Notification_Tag |-> IF notif_poi = NULL THEN NULL ELSE Some(notif_poi[1].tag),
      Notification_Valve_Type |->
          IF notif_poi = NULL THEN NULL ELSE Some(notif_poi[1].valve_type) ]

\* a chain that asks for the pre-POI warning before the gap boundary
SelectNotification_pre_before_gap(state, pig_event, route_name, route_pois, cur_pos_m, next_poi, eta_next, cur_dt) ==
    LET passed == _find_poi_passage(route_pois, cur_pos_m)
        pre    == _infer_pre_poi_notification(state, next_poi, eta_next)
        gap    == _infer_gap_notification(pre.state, route_name, cur_pos_m)
        upd    == _infer_30min_update(gap.state, cur_dt)
    IN  IF pig_event = "Completed"
        THEN [ notif |-> NOTIF_COMPLETION, poi |-> NULL,
               state |-> _reset_on_completion(state) ]
        ELSE IF passed # NULL
        THEN [ notif |-> NOTIF_POI_PASSAGE, poi |-> passed, state |-> state ]
        ELSE IF pre.notif # ""
        THEN [ notif |-> pre.notif, poi |-> NULL, state |-> pre.state ]
        ELSE IF gap.notif # ""
        THEN [ notif |-> gap.notif, poi |-> NULL, state |-> gap.state ]
        ELSE [ notif |-> IF upd.fire THEN NOTIF_30MIN_UPDATE ELSE "",
               poi |-> NULL, state |-> upd.state ]

\* the notification chain of process_pig: completion, POI passage, gap,
\* pre-POI, periodic update; returns the type, the POI it names and the state
SelectNotification(state, pig_event, route_name, route_pois, cur_pos_m, next_poi, eta_next, cur_dt) ==
    LET passed == _find_poi_passage(route_pois, cur_pos_m)
        gap    == _infer_gap_notification(state, route_name, cur_pos_m)
        pre    == _infer_pre_poi_notification(gap.state, next_poi, eta_next)
        upd    == _infer_30min_update(pre.state, cur_dt)
    IN  IF pig_event = "Completed"
        THEN [ notif |-> NOTIF_COMPLETION, poi |-> NULL,
               state |-> _reset_on_completion(state) ]
        ELSE IF passed # NULL
        THEN [ notif |-> NOTIF_POI_PASSAGE, poi |-> passed, state |-> state ]
        ELSE IF gap.notif # ""
        THEN [ notif |-> gap.notif, poi |-> NULL, state |-> gap.state ]
        ELSE IF pre.notif # ""
        THEN [ notif |-> pre.notif, poi |-> NULL, state |-> pre.state ]
        ELSE [ notif |-> IF upd.fire THEN NOTIF_30MIN_UPDATE ELSE "",
               poi |-> NULL, state |-> upd.state ]

\* tin: what the repo returns for the tick: telemetry_empty, the current
\* sample cur, the samples recent of the stop window, the reference sample ref
process_pig(state0, tin, cur_dt) ==
    IF tin.telemetry_empty
    THEN [ state |-> state0, payload |-> EmptyPayload ]
    ELSE
    LET routes     == _build_routes(Pois)
        pick       == _pick_legacy_route(routes, state0)
        route_name == pick.route
        route_pois == IF routes # NULL /\ route_name \in DOMAIN routes
                      THEN routes[route_name] ELSE <<>>
        cur_pos_m  == _pos_m(tin.cur)
    IN  IF cur_pos_m = NULL
        THEN [ state |-> pick.state, payload |-> MinimalPayload(route_name) ]
        ELSE
        LET pne       == _find_prev_next_end(route_pois, cur_pos_m[1])
            prev_poi  == pne[1]
            next_poi  == pne[2]
            end_poi   == pne[3]
            pig_event == _infer_pig_event(cur_pos_m[1], end_poi, tin.recent)
            state1    == _update_event_state(pick.state, pig_event, cur_dt)
            speed_mps == _calc_speed_mps(cur_pos_m[1], tin.ref)
            eta_next  == IF next_poi # NULL /\ _poi_pos_m(next_poi[1]) # NULL
                         THEN _eta_second(cur_pos_m[1], _poi_pos_m(next_poi[1])[1],
                                          speed_mps)
                         ELSE NULL
            eta_end   == IF end_poi # NULL /\ _poi_pos_m(end_poi[1]) # NULL
                         THEN _eta_second(cur_pos_m[1], _poi_pos_m(end_poi[1])[1],
                                          speed_mps)
                         ELSE NULL
            sel       == SelectNotification(state1, pig_event, route_name, route_pois,
                                            cur_pos_m[1], next_poi, eta_next, cur_dt)
        IN  [ state |-> sel.state,
              payload |-> _build_payload(route_name, cur_pos_m[1], prev_poi, next_poi,
                                         end_poi, pig_event, speed_mps, eta_next,
                                         eta_end, sel.notif, sel.poi) ]

\* seconds from one tick to the next; with TelemetryLags the latest samples
\* of two ticks are 0, 29 or 30 minutes apart
TickSteps == {0, 30 * 60}

\* seconds by which the latest sample can be older than the tick
TelemetryLags == {0, 60}

\* the ticks stop advancing the time at MaxClock
MaxClock == 1800

\* kp of the current samples the ticks draw
CurKps == {20, 110, 115, 195, 250}

CurSamples ==
    { PosSample(NULL, Some(k)) : k \in CurKps }
        \cup { PosSample(NULL, NULL), PosSample(Some(8), NULL) }

\* what get_recent_positions returns for the stop window: the current sample
\* alone, or with one earlier sample 60 m behind
RecentChoices(cur) ==
    {{cur}} \cup
    ( IF cur.kp = NULL THEN {}
      ELSE { {cur, PosSample(NULL, Some(cur.kp[1] - b))} : b \in {6} } )

\* the reference sample of the speed window: none, or one 300 s old and
\* 300 m behind
RefChoices(cur) ==
    {NULL} \cup
    ( IF cur.kp = NULL THEN {}
      ELSE { Some([sample |-> PosSample(NULL, Some(cur.kp[1] - b)), age |-> 300]) :
               b \in {30} } )

TickInputs ==
    { [telemetry_empty |-> TRUE, cur |-> NULL, recent |-> {}, ref |-> NULL] }
        \cup UNION { { [telemetry_empty |-> FALSE, cur |-> c, recent |-> rs, ref |-> rf] :
                         rs \in RecentChoices(c), rf \in RefChoices(c) } :
                     c \in CurSamples }

\* one detector tick for the pig: process_pig(pig_id, tool_type, now) on the
\* state the repo holds, with save_state of the result; the latest sample
\* is `lag` seconds older than now and no older than the one before;
\* whether the repo had telemetry for the pig is kept on record
EngineCall(step, lag, tin) ==
    /\ clock + step <= MaxClock
    /\ clock + step - lag >= sample_dt
    /\ clock' = clock + step
    /\ sample_dt' = clock + step - lag
    /\ \E res \in {process_pig(pig_state, tin, clock + step - lag)} :
           /\ pig_state' = res.state
           /\ returned' = res.payload
    /\ args' = [fn |-> "process_pig", telemetry_empty |-> tin.telemetry_empty]

\* a tick of the Engine alone
EngineTick(step, lag, tin) == EngineCall(step, lag, tin) /\ UNCHANGED <<outboxVars, offset>>

\* nothing has been called directly yet
NoCall == [fn |-> "none"]

\* before the first tick
EngineIdle ==
    /\ pig_state = PigState
    /\ clock = 0
    /\ sample_dt = 0
    /\ returned = EmptyPayload
    /\ args = NoCall

----------------------------------------------------------------------------
(* time *)

\* a timestamp after TickSeconds more seconds, never below `floor`
Shift(t, floor) == Max(t - TickSeconds, floor)

\* the oldest offset of locked_at the model tells apart: older than stale
OldestLock == now - stale_seconds - 1

TickRow(r) ==
    [ r EXCEPT !.next_attempt_at = Shift(@, now),
               !.locked_at = IF @ = NULL THEN NULL ELSE Some(Shift(@[1], OldestLock)),
               !.sent_at = IF @ = NULL THEN NULL ELSE Some(Shift(@[1], now - TickSeconds)) ]

\* TickSeconds pass; transactions are short and none is open meanwhile
Tick ==
    /\ \A w \in Workers : held[w] = {}
    /\ outbox' = [ id \in Ids(outbox) |-> TickRow(outbox[id]) ]
    /\ UNCHANGED <<senderVars, det_i, det_log, engineVars, offset>>

----------------------------------------------------------------------------

\* the callback data the approval channel can deliver for a row: the row's
\* own token or a token that is not the row's
Tokens(outbox_id) == { <<"token", outbox_id>>, <<"token", 0>> }

Decisions == {"APPROVED", "REJECTED"}

SenderStep(w) == Begin(w) \/ Update(w) \/ Send(w) \/ Ack(w)

ApprovalStep ==
    \E id \in Ids(outbox), d \in Decisions : \E tok \in Tokens(id) : Decide(id, tok, d)

SendersIdle ==
    /\ held = [w \in Workers |-> {}]
    /\ pc = [w \in Workers |-> "begin"]
    /\ loops = [w \in Workers |-> 0]
    /\ items = [w \in Workers |-> <<>>]
    /\ idx = [w \in Workers |-> 1]
    /\ sent_ids = [w \in Workers |-> <<>>]
    /\ retry_rows = [w \in Workers |-> <<>>]
    /\ dead_rows = [w \in Workers |-> <<>>]

\* the table after the detector's first tick when process_pig returned
\* notification type nt for every active pig
RECURSIVE AfterTick(_, _, _)
AfterTick(ob, i, nt) ==
    IF i > Len(PigIds)
    THEN ob
    ELSE LET payload == [pig_id |-> PigIds[i], notif_type |-> nt]
         IN  AfterTick(enqueue_notification(ob, make_dedup_key(payload), PigIds[i],
                                            nt, payload),
                       i + 1, nt)

(* The senders, the approval gate and time over the rows of one detector tick *)
Init ==
    /\ outbox = AfterTick(<<>>, 1, "POI Passage")
    /\ SendersIdle
    /\ det_i = 1
    /\ det_log = <<"none", NULL>>
    /\ EngineIdle
    /\ offset = 0

Next ==
    \/ \E w \in Workers : Begin(w)
    \/ \E w \in Workers : Update(w)
    \/ \E w \in Workers : Send(w)
    \/ \E w \in Workers : Ack(w)
    \/ \E w \in Workers : Crash(w)
    \/ ApprovalStep
    \/ Tick

Spec == Init /\ [][Next]_vars

\* the approval gate decides row outbox_id with the row's own token
GateDecides(outbox_id) ==
    \E d \in Decisions : Decide(outbox_id, <<"token", outbox_id>>, d)

(* Spec with the scheduling the deployment provides: time passes, every
   sender that has not stopped keeps looping and each of its POSTs returns,
   and the approval gate decides every row *)
LiveSpec ==
    /\ Spec
    /\ WF_vars(Tick)
    /\ \A w \in Workers : WF_vars(SenderStep(w))
    /\ \A id \in 1..Len(PigIds) : WF_vars(GateDecides(id))

(* The detector from an empty table, with the approval gate, time and one sender *)
DetWorkers == {"sender_1"}

DetInit ==
    /\ outbox = <<>>
    /\ SendersIdle
    /\ det_i = 1
    /\ det_log = <<"none", NULL>>
    /\ EngineIdle
    /\ offset = 0

DetNext ==
    \/ \E nt \in NotifTypes : DetectorStep(nt)
    \/ \E w \in DetWorkers : Begin(w)
    \/ \E w \in DetWorkers : Update(w)
    \/ \E w \in DetWorkers : Send(w)
    \/ \E w \in DetWorkers : Ack(w)
    \/ ApprovalStep
    \/ Tick

DetSpec == DetInit /\ [][DetNext]_vars

(* One sender over the rows of a detector tick and of one more notification,
   with the approval gate and time *)
BacklogInit ==
    /\ outbox = LET payload == [pig_id |-> PigIds[1], notif_type |-> "Gap Start"]
                IN  enqueue_notification(AfterTick(<<>>, 1, "POI Passage"),
                                         make_dedup_key(payload), PigIds[1],
                                         "Gap Start", payload)
    /\ SendersIdle
    /\ det_i = 1
    /\ det_log = <<"none", NULL>>
    /\ EngineIdle
    /\ offset = 0

BacklogNext ==
    \/ \E w \in DetWorkers : Begin(w)
    \/ \E w \in DetWorkers : Update(w)
    \/ \E w \in DetWorkers : Send(w)
    \/ \E w \in DetWorkers : Ack(w)
    \/ ApprovalStep
    \/ Tick

BacklogSpec == BacklogInit /\ [][BacklogNext]_vars

(* The approval worker handling the updates Telegram delivers, over the rows
   of one detector tick *)
CallbackNext ==
    \E upd \in Updates, answer \in AnswerOutcomes : HandleUpdate(upd, answer)

CallbackSpec == Init /\ [][CallbackNext]_vars

(* One sender with every response of the endpoint, no passing of time *)
SendNext ==
    \/ \E nt \in NotifTypes : DetectorStep(nt)
    \/ ApprovalStep
    \/ \E w \in DetWorkers : Begin(w)
    \/ \E w \in DetWorkers : Update(w)
    \/ \E w \in DetWorkers : SendRecorded(w)
    \/ \E w \in DetWorkers : Ack(w)

SendSpec == DetInit /\ [][SendNext]_vars

(* The same, with calls of the detector that raise *)
DetFailNext == DetNext \/ DetectorRaise

DetFailSpec == DetInit /\ [][DetFailNext]_vars

(* The Engine's ticks for one pig *)
EngineInit ==
    /\ outbox = <<>>
    /\ SendersIdle
    /\ det_i = 1
    /\ det_log = <<"none", NULL>>
    /\ EngineIdle
    /\ offset = 0

EngineNext ==
    \E step \in TickSteps, lag \in TelemetryLags, tin \in TickInputs :
        EngineTick(step, lag, tin)

EngineSpec == EngineInit /\ [][EngineNext]_vars

(* The Engine's ticks for one pig one minute and 29 minutes apart, the pig
   without telemetry or with one sample at 2500 m *)
CadenceSteps == {60, 29 * 60}

CadenceInputs ==
    { tin \in TickInputs :
        \/ tin.telemetry_empty
        \/ tin.cur = PosSample(NULL, Some(250)) /\ tin.recent = {tin.cur} /\ tin.ref = NULL }

CadenceNext ==
    \E step \in CadenceSteps, lag \in TelemetryLags, tin \in CadenceInputs :
        EngineTick(step, lag, tin)

CadenceSpec == EngineInit /\ [][CadenceNext]_vars

(* The detector's tick for one pig: process_pig, then the enqueue *)

\* payload.get("Notification Type"), "" for a payload without the key
NotifTypeOf(payload) ==
    IF payload.keys = "none" THEN "" ELSE payload.Notification_Type

\* the ticks of the pipeline: the pig is at kp 0.20 or 1.10 with a single
\* sample in the stop window
PipelineInputs ==
    { tin \in TickInputs :
        /\ ~tin.telemetry_empty
        /\ tin.cur.kp \in {Some(20), Some(110)}
        /\ tin.recent = {tin.cur} }

\* run_detector line 33: process_pig has saved the state and returned the
\* payload, which the detector now holds
DetectorProcess(step, tin) ==
    /\ det_log[1] # "processed"
    /\ EngineCall(step, 0, tin)
    /\ det_log' = <<"processed", NULL>>
    /\ UNCHANGED <<outbox, senderVars, det_i, offset>>

\* run_detector lines 36-51 for the payload held
DetectorEnqueue ==
    /\ det_log[1] = "processed"
    /\ LET pig_id     == PigIds[1]
           notif_type == NotifTypeOf(returned)
           payload    == [pig_id |-> pig_id, notif_type |-> notif_type]
           dedup_key  == make_dedup_key(payload)
           inserted   == enqueue_inserted(outbox, dedup_key)
       IN  IF notif_type = ""
           THEN /\ det_log' = <<"none", NULL>>
                /\ UNCHANGED outbox
           ELSE /\ outbox' = enqueue_notification(outbox, dedup_key, pig_id,
                                                  notif_type, payload)
                /\ det_log' = <<IF inserted THEN "inserted" ELSE "skipped", dedup_key>>
    /\ UNCHANGED <<senderVars, det_i, engineVars, offset>>

\* the detector process stops after process_pig returned and is started
\* again: the payload it held is gone, the saved state is not
DetectorRestart ==
    /\ det_log[1] = "processed"
    /\ det_log' = <<"restarted", NULL>>
    /\ UNCHANGED <<outbox, senderVars, det_i, engineVars, offset>>

PipelineNext ==
    \/ \E step \in TickSteps, tin \in PipelineInputs : DetectorProcess(step, tin)
    \/ DetectorEnqueue
    \/ DetectorRestart

PipelineSpec == EngineInit /\ [][PipelineNext]_vars

----------------------------------------------------------------------------
(* Direct calls of the Engine's functions, arguments and result on record *)

\* what a direct call leaves in `returned`
Result(r) == [keys |-> "result", result |-> r]

\* positions in metres around the end POI V1 (2000 m), and one far from it
CallPositions == {1000, 1940, 1950, 2050, 2060}

\* an end POI: none, V1, or a POI that has neither kp nor global channel
CallEndPois == { NULL, Some(Pois[1]), Some(POI("V0", "MAIN", NULL, NULL, "L1")) }

\* the samples of a stop window: every subset of three samples 50 m, 60 m
\* and 10 m apart and one sample without a position
CallRecentSets ==
    SUBSET { PosSample(NULL, Some(100)), PosSample(NULL, Some(105)),
             PosSample(NULL, Some(106)), PosSample(NULL, NULL) }

CallInferPigEvent(cur_pos_m, end_poi, recent) ==
    /\ args' = [fn |-> "_infer_pig_event", cur_pos_m |-> cur_pos_m,
                end_poi |-> end_poi, recent |-> recent]
    /\ returned' = Result(_infer_pig_event(cur_pos_m, end_poi, recent))
    /\ UNCHANGED <<offset, outboxVars, pig_state, clock, sample_dt>>

\* the reference samples of a speed: none, or a sample at 1000 m, at 2000 m
\* or without a position that is 0 s, 60 s, 120 s or 300 s older than the
\* current sample
CallRefs ==
    {NULL} \cup { Some([sample |-> smp, age |-> age]) :
                     smp \in { PosSample(NULL, Some(100)), PosSample(NULL, Some(200)),
                               PosSample(NULL, NULL) },
                     age \in {0, 60, 120, 300} }

CallCalcSpeed(cur_pos_m, ref) ==
    /\ ref # NULL
    /\ args' = [fn |-> "_calc_speed_mps", cur_pos_m |-> cur_pos_m, ref |-> ref]
    /\ returned' = Result(_calc_speed_mps(cur_pos_m, ref))
    /\ UNCHANGED <<offset, outboxVars, pig_state, clock, sample_dt>>

\* positions in metres at the tolerance and one metre beyond it on both
\* sides of the POIs V1 (2000 m) and V2 (4000 m)
CallTolPositions == {1949, 1950, 2050, 2051, 3949, 3950, 4050, 4051}

\* the decisions of a tick of a pig bound to route_name at cur_pos_m, with
\* no sample but the current one: the pig event, the notification and its POI
CallTickDecision(route_name, cur_pos_m) ==
    LET routes     == _build_routes(Pois)
        state0     == [PigState EXCEPT !.locked_legacy_route = Some(route_name)]
        pick       == _pick_legacy_route(routes, state0)
        route_pois == IF routes # NULL /\ pick.route \in DOMAIN routes
                      THEN routes[pick.route] ELSE <<>>
        pne        == _find_prev_next_end(route_pois, cur_pos_m)
        pig_event  == _infer_pig_event(cur_pos_m, pne[3], {})
        sel        == SelectNotification(pick.state, pig_event, pick.route, route_pois,
                                         cur_pos_m, pne[2], NULL, 0)
    IN  /\ args' = [fn |-> "decision", route_name |-> route_name, cur_pos_m |-> cur_pos_m]
        /\ returned' = Result([route_name |-> pick.route, pig_event |-> pig_event,
                               notification_type |-> sel.notif, notif_poi |-> sel.poi])
        /\ UNCHANGED <<offset, outboxVars, pig_state, clock, sample_dt>>

\* global channels and kps of the samples and POIs whose position is asked
\* for: none, a channel with a mapping (8), a channel without one (40), and
\* none or the kp 2.5 km
CallChannels == { NULL, Some(8), Some(40) }
CallKps == { NULL, Some(250) }

CallPosM(sample) ==
    /\ args' = [fn |-> "_pos_m", sample |-> sample]
    /\ returned' = Result(_pos_m(sample))
    /\ UNCHANGED <<offset, outboxVars, pig_state, clock, sample_dt>>

CallPoiPosM(poi) ==
    /\ args' = [fn |-> "_poi_pos_m", poi |-> poi]
    /\ returned' = Result(_poi_pos_m(poi))
    /\ UNCHANGED <<offset, outboxVars, pig_state, clock, sample_dt>>

CallNext ==
    \/ \E gc \in CallChannels, kp \in CallKps : CallPosM(PosSample(gc, kp))
    \/ \E gc \in CallChannels, kp \in CallKps : CallPoiPosM(POI("P1", "MAIN", gc, kp, "L1"))
    \/ \E route_name \in {"L1"}, cur_pos_m \in CallTolPositions :
          CallTickDecision(route_name, cur_pos_m)
    \/ \E cur_pos_m \in CallPositions, end_poi \in CallEndPois, recent \in CallRecentSets :
          CallInferPigEvent(cur_pos_m, end_poi, recent)
    \/ \E cur_pos_m \in CallPositions, ref \in CallRefs : CallCalcSpeed(cur_pos_m, ref)

CallSpec == EngineInit /\ [][CallNext]_vars

----------------------------------------------------------------------------
(* Claims *)

Terminal == {"SENT", "DEAD"}

\* C1: after any sequence of detector ticks and enqueue calls the table holds
\* at most one row per dedup_key.
C1_UniqueDedupKey ==
    \A i, j \in Ids(outbox) : outbox[i].dedup_key = outbox[j].dedup_key => i = j

\* the detector has just enqueued a key a second time, with both rows present
C1_Witness ==
    /\ det_log[1] = "skipped"
    /\ Len(outbox) = Len(PigIds)

\* a step of the detector (it always moves on to another pig)
DetectorMoved == det_i' # det_i

\* C2: an enqueue of a dedup_key that already has a row returns
\* inserted=false and leaves the table unchanged, whatever state the row is
\* in, and the detector goes on with the next pig.
C2_ConflictLeavesRow ==
    [][ (DetectorMoved /\ det_log'[1] # "none" /\ KeyExists(outbox, det_log'[2]))
          => /\ det_log'[1] = "skipped"
             /\ outbox' = outbox
             /\ det_i' = (IF det_i = Len(PigIds) THEN 1 ELSE det_i + 1) ]_vars

\* the detector has just enqueued again the key of a row the sender has
\* already taken out of NEW
C2_Witness ==
    /\ det_log[1] = "skipped"
    /\ \E id \in Ids(outbox) :
          /\ outbox[id].dedup_key = det_log[2]
          /\ outbox[id].status \in {"SENT", "RETRY", "DEAD"}
          /\ outbox[id].attempt_count > 0 \/ outbox[id].sent_at # NULL

\* C3 (as claimed): once a row is SENT or DEAD its status never changes.
C3_TerminalNeverChanges ==
    [][ \A id \in Ids(outbox) :
          outbox[id].status \in Terminal => outbox'[id].status = outbox[id].status ]_vars

\* the status transitions of section 4.2.3
Permitted == { <<"NEW", "SENDING">>, <<"RETRY", "SENDING">>, <<"SENDING", "SENT">>,
               <<"SENDING", "RETRY">>, <<"SENDING", "DEAD">> }

\* C4 (as claimed): rows start NEW / PENDING / 0 attempts and every later
\* change of status is a permitted transition.
C4_OnlyPermittedTransitions ==
    /\ [][ \A id \in Ids(outbox') :
             IF id \in Ids(outbox)
             THEN \/ outbox'[id].status = outbox[id].status
                  \/ <<outbox[id].status, outbox'[id].status>> \in Permitted
             ELSE /\ outbox'[id].status = "NEW"
                  /\ outbox'[id].approval_status = "PENDING"
                  /\ outbox'[id].attempt_count = 0 ]_vars

\* C5: a claim moves a row to SENDING only from NEW or RETRY, APPROVED and
\* due; no row that is PENDING or REJECTED is SENDING, in a claimed batch
\* (POSTed) or SENT; a REJECTED row is still NEW and was never attempted.
C5_ClaimOnlyApprovedDue ==
    /\ [][ \A id \in Ids(outbox) :
             (outbox[id].status # "SENDING" /\ outbox'[id].status = "SENDING")
                => /\ outbox[id].status \in {"NEW", "RETRY"}
                   /\ outbox[id].approval_status = "APPROVED"
                   /\ outbox[id].next_attempt_at <= now ]_vars
    /\ [](\A id \in Ids(outbox) :
             /\ outbox[id].status \in {"SENDING", "SENT"}
                   => outbox[id].approval_status = "APPROVED"
             /\ (\E w \in Workers : \E k \in 1..Len(items[w]) : items[w][k].id = id)
                   => outbox[id].approval_status = "APPROVED"
             /\ outbox[id].approval_status = "REJECTED"
                   => /\ outbox[id].status = "NEW"
                      /\ outbox[id].attempt_count = 0
                      /\ outbox[id].sent_at = NULL)

\* one row was rejected and stayed NEW while the other was claimed and sent
C5_Witness ==
    \E i, j \in Ids(outbox) :
        /\ outbox[i].approval_status = "REJECTED"
        /\ outbox[j].status = "SENT"

\* C6: concurrent claim transactions select disjoint sets of rows; a row a
\* claim sets SENDING was not SENDING, and names the claiming worker in
\* locked_by.
C6_DisjointClaims ==
    /\ [](\A v, w \in Workers : v # w => held[v] \cap held[w] = {})
    /\ [][ \A w \in Workers :
             (pc[w] = "update" /\ pc'[w] = "send")
                => \A id \in held[w] :
                     /\ outbox[id].status \in {"NEW", "RETRY"}
                     /\ outbox'[id].status = "SENDING"
                     /\ outbox'[id].locked_by = Some(w)
                     /\ \E k \in 1..Len(items'[w]) : items'[w][k].id = id ]_vars

\* two claim transactions are open at once, each with rows selected
C6_Witness ==
    \A w \in Workers : pc[w] = "update" /\ held[w] # {}

\* C9: every DEAD row has attempt_count >= max_attempts.
C9_DeadExhausted ==
    \A id \in Ids(outbox) :
        outbox[id].status = "DEAD" => outbox[id].attempt_count >= max_attempts

\* a row is DEAD
C9_Witness == \E id \in Ids(outbox) : outbox[id].status = "DEAD"

\* C10 (as claimed): a SENT row has sent_at set, and no claim, ack or
\* reclaim changes a sent_at that is set (the passing of time only re-bases
\* the stored offset).
C10_SentAtFinal ==
    /\ [](\A id \in Ids(outbox) : outbox[id].status = "SENT" => outbox[id].sent_at # NULL)
    /\ [][ Tick \/ \A id \in Ids(outbox) :
                     outbox[id].sent_at # NULL => outbox'[id].sent_at = outbox[id].sent_at ]_vars

\* a row has come to an end: SENT, DEAD, or REJECTED by the approval gate
Final(id) ==
    \/ outbox[id].status \in Terminal
    \/ outbox[id].approval_status = "REJECTED"

\* C7: with the approval gate deciding every row, a sender that keeps
\* looping and POSTs that return, every row reaches SENT, DEAD or REJECTED,
\* and none stays for ever in NEW, RETRY or SENDING.
C7_EveryRowEnds ==
    \A id \in 1..Len(PigIds) : []<>Final(id)

\* a row that was left SENDING by a sender that stopped is SENT
C7_Witness ==
    \E w \in Workers :
        /\ pc[w] = "crashed"
        /\ \E id \in Ids(outbox) :
              outbox[id].status = "SENT" /\ outbox[id].attempt_count > 0

\* sender w has stopped and row id is SENDING under its claim
StoppedHolding(w, id) ==
    /\ pc[w] = "crashed"
    /\ outbox[id].status = "SENDING"
    /\ outbox[id].locked_by = Some(w)

\* row id as a reclaim sweep leaves it
Reclaimed(id) ==
    /\ outbox[id].status = "RETRY"
    /\ outbox[id].next_attempt_at = now
    /\ outbox[id].locked_by = NULL
    /\ outbox[id].locked_at = NULL

\* a running sender holds the claim of row id and has POSTed it with the
\* row's dedup_key as Idempotency-Key
RePosted(id) ==
    \E v \in Workers :
        /\ pc[v] # "crashed"
        /\ outbox[id].locked_by = Some(v)
        /\ \E k \in 1..Len(items[v]) :
              /\ k < idx[v]
              /\ items[v][k].id = id
              /\ Headers(items[v][k]).IdempotencyKey = outbox[id].dedup_key

\* C8 (as claimed): a row left SENDING by a sender that stopped is moved to
\* RETRY by a reclaim sweep (next_attempt_at = now, lock cleared) and is
\* then claimed and POSTed again with the same Idempotency-Key.
C8_StoppedRowReclaimedAndResent ==
    \A w \in Crashable : \A id \in 1..Len(PigIds) :
        /\ StoppedHolding(w, id) ~> Reclaimed(id)
        /\ StoppedHolding(w, id) ~> RePosted(id)


\* worker w commits transaction 2
AckStep(w) == pc[w] = "ack" /\ pc'[w] = "begin"

\* the errors a failed POST reports
PostErrors == { res.info : res \in { o \in PostOutcomes : ~o.ok } }

\* C11: the ack of a failed POST of an item claimed with attempt_count a
\* makes the row RETRY with attempt_count a+1, next_attempt_at = now +
\* backoff(a+1), the error stored and the lock cleared when a+1 <
\* max_attempts, and DEAD with the error stored and the lock cleared when
\* a+1 >= max_attempts; the ack of a successful POST makes the row SENT with
\* sent_at set and the lock cleared.
C11_AckOutcome ==
    [][ \A w \in Workers : AckStep(w) =>
          \A k \in 1..Len(items[w]) :
             LET item == items[w][k]
                 a    == item.attempt_count
                 row  == outbox'[item.id]
                 unlocked == row.locked_by = NULL /\ row.locked_at = NULL
             IN  IF item.id \in SeqRange(sent_ids[w])
                 THEN /\ row.status = "SENT"
                      /\ row.sent_at = Some(now)
                      /\ unlocked
                 ELSE IF a + 1 < max_attempts
                 THEN /\ row.status = "RETRY"
                      /\ row.attempt_count = a + 1
                      /\ \E j \in JitterRange(BackoffBase(a + 1)) :
                            row.next_attempt_at = now + BackoffBase(a + 1) + j
                      /\ \E e \in PostErrors : row.last_error = Some(e)
                      /\ unlocked
                 ELSE /\ row.status = "DEAD"
                      /\ \E e \in PostErrors : row.last_error = Some(e)
                      /\ unlocked ]_vars

\* one ack has made a row RETRY, one has made a row DEAD and one a row SENT
C11_Witness ==
    \E i, j \in Ids(outbox) :
        /\ i # j
        /\ outbox[i].status = "DEAD" /\ outbox[i].last_error # NULL
        /\ outbox[j].status = "SENT" /\ outbox[j].attempt_count = 1
        /\ outbox[j].last_error # NULL


\* C12 (as claimed): the first failure of an item takes attempt_count from
\* 0 to 1 and schedules the retry 10 s (plus at most 1 s of jitter) ahead,
\* the second takes it from 1 to 2 and schedules the retry 30 s (plus at
\* most 3 s) ahead, both as RETRY rows, and the success makes the row SENT.
C12_BackoffTenThenThirty ==
    [][ \A w \in Workers : AckStep(w) =>
          \A k \in 1..Len(items[w]) :
             LET item  == items[w][k]
                 a     == item.attempt_count
                 row   == outbox'[item.id]
                 delay == row.next_attempt_at - now
             IN  IF item.id \in SeqRange(sent_ids[w])
                 THEN row.status = "SENT"
                 ELSE a < 2 =>
                        /\ row.status = "RETRY"
                        /\ row.attempt_count = a + 1
                        /\ a = 0 => delay \in 10..11
                        /\ a = 1 => delay \in 30..33 ]_vars


\* C13: a decision changes approval_status only of a PENDING row and only
\* with the row's token (the call returns true) and sets it to the decision;
\* on a decided row or with another token it returns false and leaves the
\* table as it is; so approval_status changes at most once, and never
\* between APPROVED and REJECTED.
C13_DecideOnce ==
    /\ [][ \A id \in Ids(outbox) : \A tok \in Tokens(id) : \A d \in Decisions :
             Decide(id, tok, d) =>
                IF decide_updated(outbox, id, tok)
                THEN /\ outbox[id].approval_status = "PENDING"
                     /\ tok = outbox[id].approval_token
                     /\ outbox' = [outbox EXCEPT ![id].approval_status = d]
                ELSE outbox' = outbox ]_vars
    /\ [][ \A id \in Ids(outbox) :
             outbox'[id].approval_status # outbox[id].approval_status
                => outbox[id].approval_status = "PENDING" ]_vars

\* a row is APPROVED and has been sent, and a REJECTED decision with the
\* row's token can still arrive for it
C13_Witness ==
    \E id \in Ids(outbox) :
        /\ outbox[id].approval_status = "APPROVED"
        /\ outbox[id].status = "SENT"
        /\ ENABLED Decide(id, outbox[id].approval_token, "REJECTED")


----------------------------------------------------------------------------
(* Claims about the Engine *)

\* a tick that returned the full payload has just been taken
FullTick == vars' # vars /\ returned'.keys = "full"

\* the POIs of the route the tick reported
TickRoutePois ==
    LET routes == _build_routes(Pois)
    IN  IF routes # NULL /\ returned'.Legacy_Route \in DOMAIN routes
        THEN routes[returned'.Legacy_Route] ELSE <<>>

\* the POI the tick reported as next, if any
TickNextPoi ==
    IF returned'.Next_POI = "" THEN NULL
    ELSE Some(CHOOSE p \in { Pois[k] : k \in 1..Len(Pois) } : p.tag = returned'.Next_POI)

\* the conditions of the kinds, on the state before the tick and on what the
\* tick reported
CompletionHolds == returned'.Pig_Event = "Completed"
PassageHolds == _find_poi_passage(TickRoutePois, returned'.Position_m[1]) # NULL
GapHolds ==
    _infer_gap_notification(pig_state, returned'.Legacy_Route,
                            returned'.Position_m[1]).notif
Pre30Holds ==
    /\ TickNextPoi # NULL /\ returned'.ETA_to_Next_POI # NULL
    /\ returned'.ETA_to_Next_POI[1] \in (29 * 60)..(31 * 60)
    /\ pig_state.fired_pre30_for_tag # Some(returned'.Next_POI)
Pre15Holds ==
    /\ TickNextPoi # NULL /\ returned'.ETA_to_Next_POI # NULL
    /\ returned'.ETA_to_Next_POI[1] \in (14 * 60)..(16 * 60)
    /\ pig_state.fired_pre15_for_tag # Some(returned'.Next_POI)
UpdateHolds ==
    \/ pig_state.first_notif_at = NULL
    \/ pig_state.last_notif_at = NULL
    \/ sample_dt' - pig_state.last_notif_at[1] >= 30 * 60

Pre15Selected == FullTick /\ returned'.Notification_Type = NOTIF_PRE_15
Pre30Selected == FullTick /\ returned'.Notification_Type = NOTIF_PRE_30

\* C15: a tick that selects the K-minute warning (K = 15, 30) finds
\* fired_preK_for_tag different from next.tag and leaves it equal to
\* next.tag; and a flag that holds a tag keeps it on every tick that does
\* not change the sticky route, so no second K-minute warning for the tag
\* is emitted before the sticky route changes
C15_WarnOncePerTag ==
    [][ /\ Pre15Selected =>
              /\ pig_state.fired_pre15_for_tag # Some(returned'.Next_POI)
              /\ pig_state'.fired_pre15_for_tag = Some(returned'.Next_POI)
        /\ Pre30Selected =>
              /\ pig_state.fired_pre30_for_tag # Some(returned'.Next_POI)
              /\ pig_state'.fired_pre30_for_tag = Some(returned'.Next_POI)
        /\ pig_state'.locked_legacy_route = pig_state.locked_legacy_route =>
              \A t \in { Pois[k].tag : k \in 1..Len(Pois) } :
                 /\ pig_state.fired_pre15_for_tag = Some(t) /\ ~Pre15Selected
                       => pig_state'.fired_pre15_for_tag = Some(t)
                 /\ pig_state.fired_pre30_for_tag = Some(t) /\ ~Pre30Selected
                       => pig_state'.fired_pre30_for_tag = Some(t) ]_vars

\* after both warnings were emitted for the next POI, a tick on which the
\* ETA is in the 15-minute window again fell through to the periodic update
C15_Witness ==
    /\ returned.keys = "full"
    /\ returned.Notification_Type = NOTIF_30MIN_UPDATE
    /\ returned.ETA_to_Next_POI # NULL
    /\ returned.ETA_to_Next_POI[1] \in (14 * 60)..(16 * 60)
    /\ pig_state.fired_pre15_for_tag = Some(returned.Next_POI)
    /\ pig_state.fired_pre30_for_tag = Some(returned.Next_POI)


\* no kind above the periodic update applies on the tick
NoHigherPriority ==
    /\ FullTick
    /\ ~CompletionHolds /\ ~PassageHolds /\ GapHolds = ""
    /\ ~Pre30Holds /\ ~Pre15Holds

UpdateSelected == returned'.Notification_Type = NOTIF_30MIN_UPDATE

\* C16: when no higher-priority notification applies on a tick: with
\* first_notif_at unset the tick emits 30 Min Update and sets first_notif_at
\* and last_notif_at to now (the tick's time); otherwise it emits 30 Min
\* Update exactly when now - last_notif_at >= 30 min, and sets last_notif_at
\* to now exactly when it emits
C16_PeriodicUpdate ==
    [][ NoHigherPriority =>
          IF pig_state.first_notif_at = NULL
          THEN /\ UpdateSelected
               /\ pig_state'.first_notif_at = Some(clock')
               /\ pig_state'.last_notif_at = Some(clock')
          ELSE /\ UpdateSelected <=> clock' - pig_state.last_notif_at[1] >= 30 * 60
               /\ pig_state'.last_notif_at =
                     IF UpdateSelected THEN Some(clock') ELSE pig_state.last_notif_at
               /\ pig_state'.first_notif_at = pig_state.first_notif_at ]_vars


\* last_notif_at does not decrease in the step (unset counts as earliest)
LastNotifNotDecreasing ==
    pig_state.last_notif_at # NULL =>
        /\ pig_state'.last_notif_at # NULL
        /\ pig_state'.last_notif_at[1] >= pig_state.last_notif_at[1]

\* C17 as stated: over every sequence of ticks on one pig last_notif_at
\* never decreases, and first_notif_at, once set, is left as it is by every
\* tick except a Completed one, which clears it
C17_FirstClearedOnCompleted ==
    [][ /\ LastNotifNotDecreasing
        /\ pig_state.first_notif_at # NULL =>
              IF FullTick /\ CompletionHolds
              THEN pig_state'.first_notif_at = NULL
              ELSE pig_state'.first_notif_at = pig_state.first_notif_at ]_vars

\* C17 amended: over every sequence of ticks on one pig last_notif_at never
\* decreases, and first_notif_at, once set, is never assigned again nor
\* cleared, a Completed tick included
C17_NotifTimesMonotone ==
    [][ /\ LastNotifNotDecreasing
        /\ pig_state.first_notif_at # NULL =>
              pig_state'.first_notif_at = pig_state.first_notif_at ]_vars

\* a Completed tick has been persisted after two periodic updates:
\* last_notif_at has advanced and first_notif_at still holds the first one
C17_Witness ==
    /\ returned.keys = "full"
    /\ returned.Pig_Event = "Completed"
    /\ pig_state.first_notif_at # NULL
    /\ pig_state.last_notif_at # NULL
    /\ pig_state.last_notif_at[1] > pig_state.first_notif_at[1]


\* a tick that found telemetry has just been taken
TelemetryTick == vars' # vars /\ returned'.keys # "none"

\* the tick's decision is Completed
CompletedTick == returned'.keys = "full" /\ returned'.Pig_Event = "Completed"

\* the sticky route is bound to a route other than "Unknown"
StickyBound ==
    /\ pig_state.locked_legacy_route # NULL
    /\ pig_state.locked_legacy_route[1] \notin {"", "Unknown", "unknown"}

C19_RunCompletion ==
    [][ FullTick /\ returned'.Pig_Event = "Completed" =>
          /\ returned'.Notification_Type = "Run Completion"
          /\ pig_state'.locked_legacy_route = NULL
          /\ pig_state'.fired_pre15_for_tag = NULL
          /\ pig_state'.fired_pre30_for_tag = NULL
          /\ pig_state'.moving_started_at = NULL ]_vars


\* C20: a tick's Pig Event is "Resumption" exactly when the stored previous
\* raw event (last_event) is "Stopped" and the tick's raw classification,
\* which the tick stores in last_event, is "Moving"; so the raw sequence
\* Stopped, Moving, Moving is emitted as Stopped, Resumption, Moving
C20_ResumptionOverlay ==
    [][ FullTick =>
          ( returned'.Pig_Event = "Resumption"
              <=> /\ pig_state.last_event = Some("Stopped")
                  /\ pig_state'.last_event = Some("Moving") ) ]_vars


----------------------------------------------------------------------------
(* Claims about the Engine's functions *)

\* the samples of a stop window that have a position
WithPosition(samples) == { x \in samples : _pos_m(x) # NULL }

\* C21: the raw pig event is "Completed" if an end POI with a defined
\* position exists and |current - end| <= poi_tol; else "Not Detected" if
\* fewer than two samples of the stop window have a defined position; else
\* "Stopped" if max position - min position <= poi_tol; else "Moving"
C21_RawEventOrder ==
    args.fn = "_infer_pig_event" =>
        returned.result =
            IF /\ args.end_poi # NULL
               /\ _poi_pos_m(args.end_poi[1]) # NULL
               /\ Abs(args.cur_pos_m - _poi_pos_m(args.end_poi[1])[1]) <= poi_tol_meters
            THEN "Completed"
            ELSE IF Cardinality(WithPosition(args.recent)) < 2
            THEN "Not Detected"
            ELSE IF _positions_span_m(args.recent)[1] <= poi_tol_meters
            THEN "Stopped"
            ELSE "Moving"


\* C22: for a pig with no telemetry process_pig returns a payload with Pig
\* Event "Not Detected", Speed "0.00", Notification Type "", empty ETAs and
\* Legacy Route "Unknown" (so the detector enqueues nothing for the tick)
C22_NoTelemetryPayload ==
    args.fn = "process_pig" /\ args.telemetry_empty =>
        /\ returned.keys = "full"
        /\ returned.Pig_Event = "Not Detected"
        /\ returned.Speed_mps = Some(<<0, 1>>)
        /\ returned.Notification_Type = ""
        /\ returned.ETA_to_Next_POI = NULL
        /\ returned.ETA_to_End_POI = NULL
        /\ returned.Legacy_Route = "Unknown"


----------------------------------------------------------------------------
(* Claims about the detector's tick *)

\* the Outbox holds a row of the pig for the notification type
RowFor(notif_type) ==
    KeyExists(outbox, make_dedup_key([pig_id |-> PigIds[1], notif_type |-> notif_type]))

\* C23: every decision with a non-empty Notification Type gets its Outbox
\* row, also when the detector stops and restarts within a tick: once the
\* detector holds no payload any more, whatever the persisted
\* de-duplication state records as emitted (fired_pre15_for_tag,
\* fired_pre30_for_tag, last_notif_at, the gap flag) has an Outbox row
C23_NoSilentDrop ==
    det_log[1] # "processed" =>
        /\ pig_state.fired_pre15_for_tag \notin {NULL, NoTagYet} => RowFor(NOTIF_PRE_15)
        /\ pig_state.fired_pre30_for_tag \notin {NULL, NoTagYet} => RowFor(NOTIF_PRE_30)
        /\ pig_state.last_notif_at # NULL => RowFor(NOTIF_30MIN_UPDATE)
        /\ pig_state.last_gap_fired # NULL =>
              RowFor(IF pig_state.last_gap_fired[1][2] = "start"
                     THEN NOTIF_GAP_START ELSE NOTIF_GAP_END)


\* C24: when the processing of one pig fails during a tick, the detector
\* goes on with the remaining pigs and with later ticks: after a failure it
\* is still at some pig of its loop
C24_SchedulerKeepsRunning ==
    det_log[1] = "raised" => det_i \in 1..Len(PigIds)


(***************************************************************************)
(* Claims about the sender's POST                                          *)
(***************************************************************************)
Is2xx(resp) == resp.status # NULL /\ 200 <= resp.status[1] /\ resp.status[1] < 300

PostStep(w) == pc[w] = "send" /\ idx'[w] = idx[w] + 1

RowIds(rows) == { rows[k].id : k \in 1..Len(rows) }

\* C25: the POST of an item adds the item to the worker's sent ids if and
\* only if the response has a 2xx status; after any other status or an
\* exception the item is added to exactly one of the retry and the dead
\* rows; what the batch has on record for its other items stays as it is,
\* and the loop goes on to the next item or to the ack, after which the rows
\* of the batch that are SENT are those of the sent ids and the worker
\* begins its next batch.
C25_SentIffOwn2xx ==
    [][ \A w \in DetWorkers :
          /\ PostStep(w) =>
                LET item == items[w][idx[w]]
                    ok   == Is2xx(args'.resp)
                IN  /\ sent_ids'[w] = IF ok THEN Append(sent_ids[w], item.id)
                                           ELSE sent_ids[w]
                    /\ ok => retry_rows'[w] = retry_rows[w] /\ dead_rows'[w] = dead_rows[w]
                    /\ ~ok =>
                          \/ /\ Len(retry_rows'[w]) = Len(retry_rows[w]) + 1
                             /\ SubSeq(retry_rows'[w], 1, Len(retry_rows[w])) = retry_rows[w]
                             /\ retry_rows'[w][Len(retry_rows'[w])].id = item.id
                             /\ dead_rows'[w] = dead_rows[w]
                          \/ /\ Len(dead_rows'[w]) = Len(dead_rows[w]) + 1
                             /\ SubSeq(dead_rows'[w], 1, Len(dead_rows[w])) = dead_rows[w]
                             /\ dead_rows'[w][Len(dead_rows'[w])].id = item.id
                             /\ retry_rows'[w] = retry_rows[w]
                    /\ pc'[w] \in {"send", "ack"}
                    /\ items'[w] = items[w]
          /\ AckStep(w) =>
                /\ \A k \in 1..Len(items[w]) :
                      outbox'[items[w][k].id].status = "SENT"
                          <=> items[w][k].id \in SeqRange(sent_ids[w])
                /\ pc'[w] = "begin" ]_vars

\* a batch of two items is at its ack with one item sent after a 2xx
\* response and the other failed, the last POST having raised
C25_Witness ==
    \E w \in DetWorkers :
        /\ pc[w] = "ack"
        /\ Len(items[w]) = 2
        /\ SeqRange(sent_ids[w]) = {items[w][1].id}
        /\ RowIds(retry_rows[w]) \cup RowIds(dead_rows[w]) = {items[w][2].id}
        /\ args = [fn |-> "send_one", resp |-> [status |-> NULL]]


\* the least age of a reference sample of a speed the specification names
min_speed_dt_sec == 120

\* C26 (as claimed): a speed greater than 0 comes from a reference sample at
\* least min_speed_dt_sec older than the current one, and with a reference
\* that is closer in time the reported speed is 0.00.
C26_SpeedNeedsMinDt ==
    args.fn = "_calc_speed_mps" =>
        LET speed_mps == returned.result
            dt_sec    == args.ref[1].age
        IN  /\ (speed_mps # NULL /\ speed_mps[1][1] > 0) => dt_sec >= min_speed_dt_sec
            /\ dt_sec < min_speed_dt_sec => speed_mps # NULL /\ round2(speed_mps) = 0


\* the POI with the tag a tick reported, if any
PoiByTag(tag) ==
    IF tag = "" THEN NULL
    ELSE Some(CHOOSE p \in { Pois[k] : k \in 1..Len(Pois) } : p.tag = tag)

\* the ETA eta is defined exactly when the speed is above 0 and the target
\* is at or ahead of the position
EtaDefinedWhenAhead(eta, target) ==
    LET speed_mps == returned'.Speed_mps
        dist_m    == _poi_pos_m(target)[1] - returned'.Position_m[1]
    IN  eta # NULL <=> (speed_mps # NULL /\ speed_mps[1][1] > 0 /\ dist_m >= 0)

\* the ETA eta is, to the whole second, the timestamp of the current sample
\* plus the distance to the target divided by the speed
EtaIsArrivalTime(eta, target) ==
    LET speed_mps == returned'.Speed_mps
        dist_m    == _poi_pos_m(target)[1] - returned'.Position_m[1]
        travel    == eta[1] - sample_dt'
    IN  eta # NULL =>
            /\ travel * speed_mps[1][1] <= dist_m * speed_mps[1][2]
            /\ dist_m * speed_mps[1][2] < (travel + 1) * speed_mps[1][1]

\* C27 (as claimed): the ETA a tick reports to its next POI and to its end
\* POI is defined exactly when the speed is above 0 and the POI is at or
\* ahead of the position, and is then cur.dt + (p_target - p_cur) / speed.
C27_EtaIsTimestamp ==
    [][ FullTick =>
          /\ PoiByTag(returned'.Next_POI) # NULL =>
                /\ EtaDefinedWhenAhead(returned'.ETA_to_Next_POI, PoiByTag(returned'.Next_POI)[1])
                /\ EtaIsArrivalTime(returned'.ETA_to_Next_POI, PoiByTag(returned'.Next_POI)[1])
          /\ PoiByTag(returned'.End_POI) # NULL =>
                /\ EtaDefinedWhenAhead(returned'.ETA_to_End_POI, PoiByTag(returned'.End_POI)[1])
                /\ EtaIsArrivalTime(returned'.ETA_to_End_POI, PoiByTag(returned'.End_POI)[1]) ]_vars


\* the positions of the POIs of a route that have one
RoutePositions(r) ==
    { _poi_pos_m(Pois[k])[1] :
        k \in { j \in 1..Len(Pois) : Pois[j].legacy_route = r /\ _poi_pos_m(Pois[j]) # NULL } }

SetMin(S) == CHOOSE a \in S : \A b \in S : a <= b
SetMax(S) == CHOOSE a \in S : \A b \in S : a >= b

\* the routes the specification allows for a position when none is bound:
\* the narrowest of the routes whose interval, widened by the tolerance,
\* contains the position; failing that the routes of the POIs nearest to
\* the position; failing that "Unknown"
RoutesForPosition(pos) ==
    LET names      == { r \in { Pois[k].legacy_route : k \in 1..Len(Pois) } :
                          RoutePositions(r) # {} }
        lo(r)      == SetMin(RoutePositions(r)) - poi_tol_meters
        hi(r)      == SetMax(RoutePositions(r)) + poi_tol_meters
        containing == { r \in names : lo(r) <= pos /\ pos <= hi(r) }
        dist(r)    == SetMin({ Abs(p - pos) : p \in RoutePositions(r) })
    IN  IF containing # {}
        THEN { r \in containing : \A q \in containing : hi(r) - lo(r) <= hi(q) - lo(q) }
        ELSE IF names # {}
        THEN { r \in names : \A q \in names : dist(r) <= dist(q) }
        ELSE {"Unknown"}

\* C28 (as claimed): a tick that starts with no route bound reports for its
\* position the narrowest route whose interval [min POI position - poi_tol,
\* max POI position + poi_tol] contains it, else the route of the nearest
\* POI, else "Unknown".
C28_RouteByPosition ==
    [][ (FullTick /\ pig_state.locked_legacy_route = NULL) =>
          returned'.Legacy_Route \in RoutesForPosition(returned'.Position_m[1]) ]_vars


\* C29 (as claimed): a tick whose Pig Event is "Stopped" reports no speed
\* other than 0.00 and leaves the ETA to the next POI and the ETA to the
\* end POI empty.
C29_StoppedHasNoSpeedNoEta ==
    [][ (FullTick /\ returned'.Pig_Event = "Stopped") =>
          /\ returned'.Speed_mps # NULL => round2(returned'.Speed_mps) = 0
          /\ returned'.ETA_to_Next_POI = NULL
          /\ returned'.ETA_to_End_POI = NULL ]_vars


\* C30 (as claimed): at a distance of exactly poi_tol from a POI of the
\* bound route the tick selects POI Passage, or, when the POI is the end POI
\* of the route, Completed with Run Completion; at a distance of poi_tol + 1
\* from the nearest POI of the route it selects neither.
C30_ClosedTolerance ==
    args.fn = "decision" =>
        LET ps      == RoutePositions(args.route_name)
            end_m   == SetMax(ps)
            dist(p) == Abs(args.cur_pos_m - p)
            at_tol  == { p \in ps : dist(p) = poi_tol_meters }
            res     == returned.result
        IN  /\ (at_tol # {} /\ end_m \notin at_tol) =>
                    res.notification_type = "POI Passage"
            /\ end_m \in at_tol =>
                    res.pig_event = "Completed" /\ res.notification_type = "Run Completion"
            /\ (\A p \in ps : dist(p) > poi_tol_meters) =>
                    /\ res.pig_event # "Completed"
                    /\ res.notification_type \notin {"POI Passage", "Run Completion", "Completed"}


(***************************************************************************)
(* Claims about positions                                                  *)
(***************************************************************************)
\* the position in metres the specification gives to a kp and a channel
PositionOf(kp, channel) ==
    IF kp # NULL THEN Some((kp[1] * 1000) \div KpScale)
    ELSE IF channel # NULL /\ channel[1] \in DOMAIN GcToKp
    THEN Some((GcToKp[channel[1]] * 1000) \div KpScale)
    ELSE IF channel # NULL THEN Some(channel[1] * meters_per_channel)
    ELSE NULL

RowContent(r) == <<r.id, r.dedup_key, r.pig_id, r.notif_type, r.payload>>

\* C32: every step keeps every row of the outbox with its id, dedup_key,
\* pig_id, notif_type and payload; the only step that adds a row is the
\* detector's enqueue, which adds one NEW row, so that no claim, POST, ack,
\* reclaim, approval decision or passing of time creates or deletes a row.
C32_RowsOnlyGrow ==
    [][ /\ Len(outbox') >= Len(outbox)
        /\ \A id \in Ids(outbox) : RowContent(outbox'[id]) = RowContent(outbox[id])
        /\ Len(outbox') # Len(outbox) =>
              /\ Len(outbox') = Len(outbox) + 1
              /\ det_log'[1] = "inserted"
              /\ det_i' # det_i
              /\ senderVars' = senderVars
              /\ outbox'[Len(outbox')].status = "NEW"
              /\ outbox'[Len(outbox')].dedup_key = det_log'[2] ]_vars

\* both rows of the detector are in the outbox, one of them SENT, and the
\* detector's enqueue of the SENT row's key has just been skipped
C32_Witness ==
    /\ Len(outbox) = Len(PigIds)
    /\ det_log[1] = "skipped"
    /\ \E id \in Ids(outbox) :
          outbox[id].status = "SENT" /\ outbox[id].dedup_key = det_log[2]


\* worker w's loop begins with the reclaim sweep
SweepStep(w) == Begin(w) /\ (loops[w] + 1) % Max(1, reclaim_every_loops) = 0

\* the row is SENDING with a lock older than now - stale
StaleSending(r) ==
    r.status = "SENDING" /\ r.locked_at # NULL /\ r.locked_at[1] < now - stale_seconds

\* C33: the reclaim sweep at the beginning of a worker's loop makes the rows
\* that are SENDING with locked_at older than now - stale RETRY with
\* next_attempt_at = now and both lock fields cleared, every other field
\* (attempt_count, approval_status, sent_at among them) as it was, and
\* leaves every other row as it was; the beginning of a loop without a
\* sweep leaves every row as it was.
C33_ReclaimExactlyStale ==
    [][ \A w \in Workers :
          /\ SweepStep(w) =>
                /\ Len(outbox') = Len(outbox)
                /\ \A id \in Ids(outbox) :
                      outbox'[id] =
                          IF StaleSending(outbox[id])
                          THEN [ outbox[id] EXCEPT !.status = "RETRY",
                                                   !.next_attempt_at = now,
                                                   !.locked_by = NULL,
                                                   !.locked_at = NULL ]
                          ELSE outbox[id]
          /\ (Begin(w) /\ ~SweepStep(w)) => outbox' = outbox ]_vars

\* a sweep has just taken a row from under the worker that is POSTing it,
\* and has left alone a row that was SENT
C33_Witness ==
    \E w \in Workers, id, j \in Ids(outbox) :
        /\ pc[w] \in {"send", "ack"}
        /\ \E k \in 1..Len(items[w]) : items[w][k].id = id
        /\ outbox[id].status = "RETRY"
        /\ outbox[id].next_attempt_at = now
        /\ outbox[id].locked_by = NULL
        /\ outbox[id].attempt_count = items[w][1].attempt_count
        /\ outbox[j].status = "SENT"


\* the rows a claim can take from the table ob
EligibleIds(ob) ==
    { id \in Ids(ob) : /\ ob[id].status \in {"NEW", "RETRY"}
                       /\ ob[id].approval_status = "APPROVED"
                       /\ ob[id].next_attempt_at <= now }

\* C34: with one sender, the claim at the beginning of a loop takes
\* min(batch_size, number of eligible rows) eligible rows, in ascending id
\* order, and every eligible row it leaves has a greater id than every row
\* it takes.
C34_ClaimSmallestIds ==
    [][ \A w \in DetWorkers : Begin(w) =>
          LET elig    == EligibleIds(outbox')
              claimed == IF pc'[w] = "update" THEN held'[w] ELSE {}
          IN  /\ claimed \subseteq elig
              /\ Cardinality(claimed) = Min(batch_size, Cardinality(elig))
              /\ \A i \in claimed, j \in elig \ claimed : i < j
              /\ pc'[w] = "update" =>
                    /\ { items'[w][k].id : k \in 1..Len(items'[w]) } = claimed
                    /\ \A k \in 1..(Len(items'[w]) - 1) :
                          items'[w][k].id < items'[w][k + 1].id ]_vars

\* a claim has taken a full batch and left an eligible row, which has a
\* greater id than the rows of the batch
C34_Witness ==
    \E w \in DetWorkers :
        /\ pc[w] = "update"
        /\ Cardinality(held[w]) = batch_size
        /\ \E j \in EligibleIds(outbox) \ held[w] : \A i \in held[w] : i < j


(***************************************************************************)
(* Claims about the Engine's state from tick to tick                       *)
(***************************************************************************)
\* C35 (as claimed): a tick with a position sets moving_started_at to the
\* time of the current sample when the event before was Stopped and the
\* event now is Moving, clears it when the event now is Stopped or
\* Completed, and leaves it as it was otherwise.
C35_MovingStartedAt ==
    [][ FullTick =>
          pig_state'.moving_started_at =
              IF returned'.Pig_Event \in {"Stopped", "Completed"}
              THEN NULL
              ELSE IF pig_state.last_event = Some("Stopped") /\ returned'.Pig_Event = "Moving"
              THEN Some(sample_dt')
              ELSE pig_state.moving_started_at ]_vars


(***************************************************************************)
(* Claims about the senders' rows in every interleaving                    *)
(***************************************************************************)
\* C36: a row has locked_by and locked_at set if and only if its status is
\* SENDING; a row that is NEW, RETRY, SENT or DEAD has neither.
C36_LockedIffSending ==
    \A id \in Ids(outbox) :
        IF outbox[id].status = "SENDING"
        THEN outbox[id].locked_by # NULL /\ outbox[id].locked_at # NULL
        ELSE outbox[id].locked_by = NULL /\ outbox[id].locked_at = NULL

\* one row is SENDING under a worker's lock while the other, which failed
\* once, is RETRY without a lock
C36_Witness ==
    \E i, j \in Ids(outbox) :
        /\ outbox[i].status = "SENDING" /\ outbox[i].locked_by # NULL
        /\ outbox[j].status = "RETRY" /\ outbox[j].attempt_count = 1
        /\ outbox[j].locked_by = NULL


\* C37 (as claimed): the attempt_count of a row never decreases and never
\* exceeds max_attempts, whatever the order of the workers' claims, acks and
\* reclaim sweeps.
C37_AttemptCountMonotone ==
    /\ [](\A id \in Ids(outbox) : outbox[id].attempt_count <= max_attempts)
    /\ [][ \A id \in Ids(outbox) :
              outbox'[id].attempt_count >= outbox[id].attempt_count ]_vars


\* C38 (as claimed): a tick that does not select 30 Min Update leaves
\* first_notif_at and last_notif_at as they were, and when a tick and the
\* tick before it both select 30 Min Update, at least 30 minutes lie
\* between the two ticks.
C38_CadenceNotRestarted ==
    [][ TelemetryTick =>
          /\ returned'.Notification_Type # NOTIF_30MIN_UPDATE =>
                /\ pig_state'.first_notif_at = pig_state.first_notif_at
                /\ pig_state'.last_notif_at = pig_state.last_notif_at
          /\ ( /\ returned'.Notification_Type = NOTIF_30MIN_UPDATE
               /\ returned.keys # "none"
               /\ returned.Notification_Type = NOTIF_30MIN_UPDATE )
                => clock' - clock >= 30 * 60 ]_vars


\* the gap points of the route the tick reported that are nearest to the
\* position it reported, among those within the tolerance
TickNearestGaps ==
    LET d(k) == Abs(returned'.Position_m[1] - _gap_pos_m(Gaps[k].kp))
        near == { k \in 1..Len(Gaps) :
                    Gaps[k].legacy_route = returned'.Legacy_Route /\ d(k) <= poi_tol_meters }
    IN  { k \in near : \A j \in near : d(k) <= d(j) }

TickGapKey(k) == Some(GapKey(returned'.Legacy_Route, Gaps[k]))

GapSelected == returned'.Notification_Type \in {NOTIF_GAP_START, NOTIF_GAP_END}

WellFormed(upd) ==
    /\ upd.callback_query # NULL
    /\ Len(upd.callback_query.data) = 3
    /\ upd.callback_query.data[2] \in {"1", " 2", "9"}

====
